---- MODULE Spec2Model ----
(***************************************************************************)
(* The vault: a file-backed record store.  One markdown file per record    *)
(* (YAML front matter + body), one directory per table.  The module models *)
(* the table engines of packages/vault/src (vault.ts, vault-clean.ts,      *)
(* vault-final.ts) over an explicit file tree.                             *)
(*                                                                         *)
(* Strings that the code takes apart (ids, file names, bodies) are         *)
(* sequences of tokens, so that '.md' handling and the trailing newline    *)
(* that gray-matter appends are computed, not assumed.                     *)
(***************************************************************************)
EXTENDS Integers, Sequences, FiniteSets, TLC

VARIABLES
    impl,     \* which draft of the table engine this vault runs
    fs,       \* the file tree: table directory -> (file name -> file)
    now,      \* the clock Date.now() reads
    last      \* the last call: operation, arguments and what it returned

vars == <<impl, fs, now, last>>

----------------------------------------------------------------------------
(* Bounds of the model *)

MaxTime == 2          \* Date.now() ranges over 1..MaxTime
MaxFiles == 2         \* create is not called once the vault holds this many record files

\* Math.random().toString(36).substring(2, 9): the suffixes the model draws
RandomSuffixes == {"k3", "x9"}

----------------------------------------------------------------------------
(* Generic helpers: JavaScript objects are functions from keys to values *)

EmptyObj == [k \in {} |-> TRUE]

\* { ...a, ...b }: b's keys win
Spread(a, b) == b @@ a

\* const { k, ...rest } = obj : rest
Omit(obj, keys) == [k \in (DOMAIN obj) \ keys |-> obj[k]]

Has(obj, k) == k \in DOMAIN obj

\* one-key object
Obj1(k, v) == [x \in {k} |-> v]

Range(s) == {s[i] : i \in 1..Len(s)}

\* all orderings of a finite set, as sequences without repetition
Perms(S) ==
    {s \in [1..Cardinality(S) -> S] : \A i, j \in 1..Cardinality(S) : i # j => s[i] # s[j]}

\* Array.prototype.filter on a sequence
RECURSIVE FilterSeq(_, _)
FilterSeq(s, keep) ==
    IF s = <<>> THEN <<>>
    ELSE IF Head(s) \in keep THEN <<Head(s)>> \o FilterSeq(Tail(s), keep)
    ELSE FilterSeq(Tail(s), keep)

\* Array.prototype.slice(from) and slice(0, n) for non-negative arguments
SliceFrom(s, from) == SubSeq(s, from + 1, Len(s))
SliceTo(s, n) == SubSeq(s, 1, IF n < Len(s) THEN n ELSE Len(s))

----------------------------------------------------------------------------
(* Configuration: one plugin with two tables *)

VaultPath == <<"vault">>

Impl == {"vault", "vault_clean", "vault_final", "vault_adapter"}

\* a table is a pair <<plugin id, table name>>
Tables == {<< <<"reddit">>, <<"posts">> >>, << <<"reddit">>, <<"comments">> >>}

\* the schemas of the plugin (plugin.ts example, spec scenario A)
Schema(t) ==
    IF t[2] = <<"posts">>
    THEN [title   |-> [type |-> "string", required |-> TRUE],
          content |-> [type |-> "string"],
          score   |-> [type |-> "number", default |-> 0]]
    ELSE [body    |-> [type |-> "string", required |-> TRUE],
          post_id |-> [type |-> "string", required |-> TRUE]]

----------------------------------------------------------------------------
(* utils: paths and names.  A string is a sequence of tokens, and          *)
(* concatenation of strings is concatenation of sequences.                 *)

\* path.join(a, b) of two relative paths without '.' or '..' segments
join(a, b) == a \o <<"/">> \o b

\* join(vaultPath, pluginId)
getPluginPath(vaultPath, pluginId) == join(vaultPath, pluginId)

\* `${pluginId}_${tableName}`
getSQLiteTableName(pluginId, tableName) == pluginId \o <<"_">> \o tableName

\* join(vaultPath, pluginId, tableName); the flat drafts use join(vaultPath, tableName)
getTablePath(vaultPath, pluginId, tableName) == join(join(vaultPath, pluginId), tableName)

flatTablePath(vaultPath, tableName) == join(vaultPath, tableName)

\* `${sqliteTableName}_${Date.now()}_${random}`
generateRecordId(sqliteTableName, timestamp, random) ==
    sqliteTableName \o <<"_", ToString(timestamp), "_", random>>

\* join(tablePath, `${recordId}.md`): a directory and a file name in it
getRecordPath(tablePath, recordId) == [dir |-> tablePath, name |-> Append(recordId, ".md")]

\* filename.endsWith('.md')
isMarkdownFile(filename) == Len(filename) > 0 /\ filename[Len(filename)] = ".md"

\* filename.replace('.md', ''): removes the FIRST occurrence only
RECURSIVE parseRecordFilename(_)
parseRecordFilename(filename) ==
    IF filename = <<>> THEN <<>>
    ELSE IF Head(filename) = ".md" THEN Tail(filename)
    ELSE <<Head(filename)>> \o parseRecordFilename(Tail(filename))

\* the directory and the id prefix of a table under each draft: the plugin
\* drafts nest the table under its plugin; vault-final.ts names table and
\* directory `${adapter.id}_${tableName}`; createSubfolderProxy uses the
\* schema key alone
TableDir(i, t) ==
    IF i \in {"vault", "vault_clean"} THEN getTablePath(VaultPath, t[1], t[2])
    ELSE IF i = "vault_final" THEN flatTablePath(VaultPath, getSQLiteTableName(t[1], t[2]))
    ELSE flatTablePath(VaultPath, t[2])

IdPrefix(i, t) ==
    IF i = "vault_adapter" THEN t[2] ELSE getSQLiteTableName(t[1], t[2])

\* an id that create never mints
Nonexistent == <<"nonexistent">>

----------------------------------------------------------------------------
(* gray-matter: the record codec *)

\* stringify's newline(): a body always ends in a line feed
newline(str) ==
    IF Len(str) = 0 \/ str[Len(str)] # "\n" THEN Append(str, "\n") ELSE str

\* matter.stringify(content, data): front matter block, then the body
matter_stringify(content, data) == [data |-> data, body |-> newline(content)]

\* matter(text): { data, content }
matter(text) == [data |-> text.data, content |-> text.body]

----------------------------------------------------------------------------
(* node:fs on the modelled tree *)

existsSync(tree, path) == path.dir \in DOMAIN tree /\ path.name \in DOMAIN tree[path.dir]

existsSyncDir(tree, dir) == dir \in DOMAIN tree

readFile(tree, path) == tree[path.dir][path.name]

writeFile(tree, path, text) ==
    [tree EXCEPT ![path.dir] =
        [n \in (DOMAIN @) \cup {path.name} |-> IF n = path.name THEN text ELSE @[n]]]

\* an unlink that empties the directory
unlink_dir(tree, path) == [tree EXCEPT ![path.dir] = <<>>]

unlink(tree, path) ==
    [tree EXCEPT ![path.dir] = [n \in (DOMAIN @) \ {path.name} |-> @[n]]]

\* readdir returns the names in an order the file system chooses
readdir(tree, dir) == Perms(DOMAIN tree[dir])

----------------------------------------------------------------------------
(* values an operation returns *)

null == [isNull |-> TRUE]

Returned(v) == [kind |-> "value", value |-> v]
Thrown(e) == [kind |-> "error", error |-> e]

----------------------------------------------------------------------------
(* The table engine of vault.ts (createTableMethods).  Every operation      *)
(* returns the file tree it leaves and the value it returns or throws.      *)

\* get with the existence test lost: an absent file reads as an empty record
get_noExistsCheck(tree, tablePath, id) ==
    LET filePath == getRecordPath(tablePath, id) IN
    IF ~existsSync(tree, filePath) THEN [id |-> id, content |-> <<>>]
    ELSE LET parsed == matter(readFile(tree, filePath)) IN
         Spread(Spread(parsed.data, Obj1("id", id)), Obj1("content", parsed.content))

get(tree, tablePath, id) ==
    LET filePath == getRecordPath(tablePath, id) IN
    IF ~existsSync(tree, filePath) THEN null
    ELSE LET parsed == matter(readFile(tree, filePath)) IN
         Spread(Spread(parsed.data, Obj1("id", id)), Obj1("content", parsed.content))

\* list reading the first file for every directory entry
list_firstFile(tree, tablePath, files) ==
    IF ~existsSyncDir(tree, tablePath) THEN <<>>
    ELSE LET mdFiles == FilterSeq(files, {f \in Range(files) : isMarkdownFile(f)})
             records == [k \in 1..Len(mdFiles) |->
                            get(tree, tablePath, parseRecordFilename(mdFiles[1]))]
         IN  FilterSeq(records, Range(records) \ {null})

\* files: the names readdir returned, in its order
list(tree, tablePath, files) ==
    IF ~existsSyncDir(tree, tablePath) THEN <<>>
    ELSE LET mdFiles == FilterSeq(files, {f \in Range(files) : isMarkdownFile(f)})
             records == [k \in 1..Len(mdFiles) |->
                            get(tree, tablePath, parseRecordFilename(mdFiles[k]))]
         IN  FilterSeq(records, Range(records) \ {null})

create(tree, tablePath, schema, record, id) ==
    LET content == IF Has(record, "content") THEN record.content ELSE <<>>
        providedData == Omit(record, {"content"})
        dataWithDefaults ==
            [f \in {g \in DOMAIN schema : Has(providedData, g) \/ Has(schema[g], "default")} |->
                IF Has(providedData, f) THEN providedData[f] ELSE schema[f].default]
        fileContent == matter_stringify(content, Spread(dataWithDefaults, Obj1("id", id)))
    IN  [tree   |-> writeFile(tree, getRecordPath(tablePath, id), fileContent),
         result |-> Returned(Spread(Spread(dataWithDefaults, Obj1("id", id)),
                                    Obj1("content", content)))]

\* update that writes the file whether or not the record exists
update_upsert(tree, tablePath, id, updates) ==
    LET existing == get(tree, tablePath, id)
        base == IF existing = null THEN [id |-> id, content |-> <<>>] ELSE existing
        content == IF Has(updates, "content") THEN updates.content ELSE base.content
        frontMatter == Omit(updates, {"content"})
        updated == Spread(Spread(base, frontMatter), Obj1("content", content))
        fileContent == matter_stringify(content, Spread(frontMatter, Obj1("id", id)))
    IN  [tree   |-> writeFile(tree, getRecordPath(tablePath, id), fileContent),
         result |-> Returned(updated)]

update(tree, tablePath, id, updates) ==
    LET existing == get(tree, tablePath, id) IN
    IF existing = null
    THEN [tree |-> tree, result |-> Thrown("Record not found")]
    ELSE LET content == IF Has(updates, "content") THEN updates.content ELSE existing.content
             frontMatter == Omit(updates, {"content"})
             updated == Spread(Spread(existing, frontMatter), Obj1("content", content))
             fileContent == matter_stringify(content, Spread(frontMatter, Obj1("id", id)))
         IN  [tree   |-> writeFile(tree, getRecordPath(tablePath, id), fileContent),
              result |-> Returned(updated)]

\* delete without the existence test: unlink of an absent file rejects
delete_noExistsCheck(tree, tablePath, id) ==
    LET filePath == getRecordPath(tablePath, id) IN
    IF ~existsSync(tree, filePath)
    THEN [tree |-> tree, result |-> Thrown("ENOENT")]
    ELSE [tree |-> unlink(tree, filePath), result |-> Returned(TRUE)]

delete(tree, tablePath, id) ==
    LET filePath == getRecordPath(tablePath, id) IN
    IF ~existsSync(tree, filePath)
    THEN [tree |-> tree, result |-> Returned(FALSE)]
    ELSE [tree |-> unlink(tree, filePath), result |-> Returned(TRUE)]

count(tree, tablePath, files) == Len(list(tree, tablePath, files))

exists(tree, tablePath, id) == existsSync(tree, getRecordPath(tablePath, id))

----------------------------------------------------------------------------
(* vault-clean.ts: create writes what it is given, the schema is not read *)

create_clean(tree, tablePath, record, id) ==
    LET content == IF Has(record, "content") THEN record.content ELSE <<>>
        frontMatter == Omit(record, {"content"})
        fileContent == matter_stringify(content, Spread(frontMatter, Obj1("id", id)))
    IN  [tree   |-> writeFile(tree, getRecordPath(tablePath, id), fileContent),
         result |-> Returned(Spread(Spread(frontMatter, Obj1("id", id)),
                                    Obj1("content", content)))]

----------------------------------------------------------------------------
(* Queries: where / orderBy / order / limit / offset *)

\* Object.entries(where).every(([key, value]) => record[key] === value)
matches(record, where) == \A key \in DOMAIN where : Has(record, key) /\ record[key] = where[key]

\* a JavaScript condition on an optional number: absent and 0 are both falsy
truthy(obj, key) == Has(obj, key) /\ obj[key] # 0

\* (a, b) => aVal > bVal ? order : -order, with order = desc ? -1 : 1;
\* a missing value is undefined, and undefined > x is false
compare(a, b, query) ==
    LET order == IF Has(query, "order") /\ query.order = "desc" THEN -1 ELSE 1
        greater == /\ Has(a, query.orderBy) /\ Has(b, query.orderBy)
                   /\ a[query.orderBy] > b[query.orderBy]
    IN  IF greater THEN order ELSE -order

\* Array.prototype.sort with that comparator: every arrangement in which no
\* pair stands against a consistent verdict of the comparator (the order of
\* pairs on which the comparator contradicts itself is left to the engine)
sort(results, query) ==
    {sorted \in {[k \in 1..Len(results) |-> results[p[k]]] : p \in Perms(1..Len(results))} :
        \A i, j \in 1..Len(results) :
            i < j => ~(compare(sorted[i], sorted[j], query) > 0
                       /\ compare(sorted[j], sorted[i], query) < 0)}

filterWhere(results, query) ==
    FilterSeq(results, {r \in Range(results) : matches(r, query.where)})

\* vault-clean.ts list(params): filter, sort, offset, limit.  The set holds
\* one result per outcome of the sort.
list_clean(tree, tablePath, files, params) ==
    LET records == list(tree, tablePath, files)
        filtered == IF Has(params, "where") THEN filterWhere(records, params) ELSE records
        sortedOnes == IF Has(params, "orderBy") THEN sort(filtered, params) ELSE {filtered}
        page(results) ==
            LET skipped == IF truthy(params, "offset")
                           THEN SliceFrom(results, params.offset) ELSE results
            IN  IF truthy(params, "limit") THEN SliceTo(skipped, params.limit) ELSE skipped
    IN  {page(results) : results \in sortedOnes}

\* a count that ignores its filter
count_clean_unfiltered(tree, tablePath, files, params) ==
    {Len(list(tree, tablePath, files))}

count_clean(tree, tablePath, files, params) ==
    {Len(results) : results \in list_clean(tree, tablePath, files, params)}

\* vault-final.ts find(query): filter, sort, LIMIT, then OFFSET
find_final(tree, tablePath, files, query) ==
    LET all == list(tree, tablePath, files)
        filtered == IF Has(query, "where") THEN filterWhere(all, query) ELSE all
        sortedOnes == IF Has(query, "orderBy") THEN sort(filtered, query) ELSE {filtered}
        page(results) ==
            LET limited == IF truthy(query, "limit")
                           THEN SliceTo(results, query.limit) ELSE results
            IN  IF truthy(query, "offset") THEN SliceFrom(limited, query.offset) ELSE limited
    IN  {page(results) : results \in sortedOnes}

\* vault.ts createSubfolderProxy.find(query): a where returns at once; there
\* is no offset
find_proxy(tree, tablePath, files, query) ==
    LET all == list(tree, tablePath, files) IN
    IF Has(query, "where") THEN {filterWhere(all, query)}
    ELSE LET sortedOnes == IF Has(query, "orderBy") THEN sort(all, query) ELSE {all}
         IN  {IF truthy(query, "limit") THEN SliceTo(results, query.limit) ELSE results :
                 results \in sortedOnes}

----------------------------------------------------------------------------
(* Inputs the model draws *)

\* records handed to create: every key is optional, and a record may carry a
\* field the schema does not name
CreateInputs(t) ==
    IF t[2] = <<"posts">>
    THEN {EmptyObj, [title |-> "hi"], [title |-> "hi", score |-> 5],
          [title |-> "hi", content |-> <<"a">>], [title |-> "hi", subreddit |-> "x"]}
    ELSE {EmptyObj, [body |-> "b", post_id |-> "p"]}

\* partial fields handed to update
UpdateInputs(t) ==
    IF t[2] = <<"posts">> THEN {[score |-> 5], [title |-> "nope"], [content |-> <<"b">>]}
    ELSE {[post_id |-> "p"]}

\* ids a caller may ask for: the id of a record file of the table, the id of
\* its previous call on the table (which a delete may have removed since), or
\* an id that was never minted
AskedIds(tree, dir, t, previous) ==
    {parseRecordFilename(name) : name \in DOMAIN tree[dir]}
        \cup (IF previous.table = t /\ previous.id # <<>> THEN {previous.id} ELSE {})
        \cup {Nonexistent}

\* records created before a query, and the queries
QueryCreateInputs(t) ==
    IF t[2] = <<"posts">>
    THEN {[title |-> "hi"], [title |-> "nope"], [title |-> "hi", score |-> 5],
          [title |-> "hi", score |-> 3]}
    ELSE {[body |-> "b", post_id |-> "p"]}

QueryInputs(t) ==
    IF t[2] = <<"posts">>
    THEN {Spread(Spread(w, o), Spread(l, f)) :
            w \in {EmptyObj, [where |-> [title |-> "hi"]], [where |-> [title |-> "nope"]]},
            o \in {EmptyObj, [orderBy |-> "score"], [orderBy |-> "score", order |-> "desc"]},
            l \in {EmptyObj, [limit |-> 0], [limit |-> 1]},
            f \in {EmptyObj, [offset |-> 1]}}
    ELSE {EmptyObj, [where |-> [body |-> "b"]]}

CountInputs(t) ==
    IF t[2] = <<"posts">>
    THEN {EmptyObj, [where |-> [title |-> "hi"]], [where |-> [title |-> "nope"]]}
    ELSE {EmptyObj}

----------------------------------------------------------------------------
(* The state machine *)

Call(op, t, id, input, files, result) ==
    [op |-> op, table |-> t, id |-> id, input |-> input, readdir |-> files, result |-> result]

\* number of record files in the whole vault
RECURSIVE FileCount(_, _)
FileCount(tree, dirs) ==
    IF dirs = {} THEN 0
    ELSE LET dir == CHOOSE d \in dirs : TRUE
         IN  Cardinality(DOMAIN tree[dir]) + FileCount(tree, dirs \ {dir})

\* defineVault has run: every table directory exists and is empty
InitWith(drafts) ==
    /\ impl \in drafts
    /\ fs = [dir \in {TableDir(impl, t) : t \in Tables} |-> <<>>]
    /\ now = 1
    /\ last = Call("defineVault", <<>>, <<>>, EmptyObj, <<>>, Returned(TRUE))

\* time passes between two calls
Tick ==
    /\ now < MaxTime
    /\ now' = now + 1
    /\ last' = Call("tick", <<>>, <<>>, EmptyObj, <<>>, Returned(TRUE))
    /\ UNCHANGED <<impl, fs>>

Create(t, record, random) ==
    LET dir == TableDir(impl, t)
        id == generateRecordId(IdPrefix(impl, t), now, random)
        done == IF impl = "vault" THEN create(fs, dir, Schema(t), record, id)
                ELSE create_clean(fs, dir, record, id)
    IN  /\ FileCount(fs, DOMAIN fs) < MaxFiles
        /\ fs' = done.tree
        /\ last' = Call("create", t, id, record, <<>>, done.result)
        /\ UNCHANGED <<impl, now>>

Update(t, id, updates) ==
    LET done == update(fs, TableDir(impl, t), id, updates)
    IN  /\ fs' = done.tree
        /\ last' = Call("update", t, id, updates, <<>>, done.result)
        /\ UNCHANGED <<impl, now>>

Delete(t, id) ==
    LET done == delete(fs, TableDir(impl, t), id)
    IN  /\ fs' = done.tree
        /\ last' = Call("delete", t, id, EmptyObj, <<>>, done.result)
        /\ UNCHANGED <<impl, now>>

Get(t, id) ==
    /\ last' = Call("get", t, id, EmptyObj, <<>>, Returned(get(fs, TableDir(impl, t), id)))
    /\ UNCHANGED <<impl, fs, now>>

Exists(t, id) ==
    /\ impl \in {"vault", "vault_clean"}
    /\ last' = Call("exists", t, id, EmptyObj, <<>>, Returned(exists(fs, TableDir(impl, t), id)))
    /\ UNCHANGED <<impl, fs, now>>

\* list on the plugin drafts: vault.ts declares list() without parameters,
\* so an argument passed to it is ignored
List(t, params) ==
    LET dir == TableDir(impl, t) IN
    /\ impl \in {"vault", "vault_clean"}
    /\ \E files \in readdir(fs, dir) :
         \E results \in (IF impl = "vault" THEN {list(fs, dir, files)}
                         ELSE list_clean(fs, dir, files, params)) :
            last' = Call("list", t, <<>>, params, files, Returned(results))
    /\ UNCHANGED <<impl, fs, now>>

\* find on the flat drafts
Find(t, query) ==
    LET dir == TableDir(impl, t) IN
    /\ impl \in {"vault_final", "vault_adapter"}
    /\ \E files \in readdir(fs, dir) :
         \E results \in (IF impl = "vault_final" THEN find_final(fs, dir, files, query)
                         ELSE find_proxy(fs, dir, files, query)) :
            last' = Call("find", t, <<>>, query, files, Returned(results))
    /\ UNCHANGED <<impl, fs, now>>

Count(t, params) ==
    LET dir == TableDir(impl, t) IN
    /\ \E files \in readdir(fs, dir) :
         \E n \in (IF impl = "vault_clean" THEN count_clean(fs, dir, files, params)
                   ELSE {count(fs, dir, files)}) :
            last' = Call("count", t, <<>>, params, files, Returned(n))
    /\ UNCHANGED <<impl, fs, now>>

\* The table engine of the plugin drafts under any sequence of calls
Init == InitWith({"vault", "vault_clean"})

Next ==
    \/ Tick
    \/ \E t \in Tables : \E record \in CreateInputs(t) : \E random \in RandomSuffixes :
          Create(t, record, random)
    \/ \E t \in Tables : \E id \in AskedIds(fs, TableDir(impl, t), t, last) : \E updates \in UpdateInputs(t) :
          Update(t, id, updates)
    \/ \E t \in Tables : \E id \in AskedIds(fs, TableDir(impl, t), t, last) : Delete(t, id)
    \/ \E t \in Tables : \E id \in AskedIds(fs, TableDir(impl, t), t, last) : Get(t, id)
    \/ \E t \in Tables : \E id \in AskedIds(fs, TableDir(impl, t), t, last) : Exists(t, id)
    \/ \E t \in Tables : List(t, EmptyObj)
    \/ \E t \in Tables : Count(t, EmptyObj)

Spec == Init /\ [][Next]_vars

\* Queries with parameters, on all four drafts, over tables filled by create
InitQuery == InitWith(Impl)

NextQuery ==
    \/ \E t \in Tables : \E record \in QueryCreateInputs(t) : \E random \in RandomSuffixes :
          Create(t, record, random)
    \/ \E t \in Tables : \E params \in QueryInputs(t) : List(t, params)
    \/ \E t \in Tables : \E query \in QueryInputs(t) : Find(t, query)
    \/ \E t \in Tables : \E params \in CountInputs(t) : Count(t, params)

SpecQuery == InitQuery /\ [][NextQuery]_vars

\* update(id, updates) of the flat drafts: the id is an argument of its own,
\* so the partial fields may carry an id field too
FlatUpdateInputs(t) ==
    IF t[2] = <<"posts">>
    THEN {[title |-> "nope"], [id |-> <<"other">>, title |-> "nope"]}
    ELSE {[post_id |-> "p"], [id |-> <<"other">>]}

UpdateById(t, id, updates) ==
    /\ impl \in {"vault_final", "vault_adapter"}
    /\ Update(t, id, updates)

\* The flat drafts (vault-final.ts, createSubfolderProxy) under any sequence
\* of calls
InitFlat == InitWith({"vault_final", "vault_adapter"})

NextFlat ==
    \/ Tick
    \/ \E t \in Tables : \E record \in QueryCreateInputs(t) : \E random \in RandomSuffixes :
          Create(t, record, random)
    \/ \E t \in Tables : \E id \in AskedIds(fs, TableDir(impl, t), t, last) :
          \E updates \in FlatUpdateInputs(t) : UpdateById(t, id, updates)
    \/ \E t \in Tables : \E id \in AskedIds(fs, TableDir(impl, t), t, last) : Delete(t, id)
    \/ \E t \in Tables : \E id \in AskedIds(fs, TableDir(impl, t), t, last) : Get(t, id)
    \/ \E t \in Tables : Find(t, EmptyObj)

SpecFlat == InitFlat /\ [][NextFlat]_vars

----------------------------------------------------------------------------
(* Composition: definePlugin and defineVault.  A configuration is a         *)
(* sequence of plugins (adapters in the flat drafts); a plugin is           *)
(*   [id, tables, methods]                                                  *)
(* with tables a sequence, in declaration order, of [name, methods]: the    *)
(* table's name and the names of its custom methods, and methods the names  *)
(* of the plugin-level methods.                                             *)

\* the tokens of the names: words of lowercase letters, digit strings, "_"
LowerWords == {"a", "b", "c", "blog", "reddit", "posts", "comments", "stats", "top"}
DigitWords == {"9"}

\* /^[a-z][a-z0-9_]*$/.test(name)
isValidName(name) ==
    /\ Len(name) > 0
    /\ name[1] \in LowerWords
    /\ \A k \in 1..Len(name) : name[k] \in LowerWords \cup DigitWords \cup {"_"}

\* definePlugin(config): the id first, then the table names in order
definePlugin(plugin) ==
    IF ~isValidName(plugin.id) THEN Thrown("Invalid plugin ID")
    ELSE IF \E k \in 1..Len(plugin.tables) : ~isValidName(plugin.tables[k].name)
    THEN Thrown("Invalid table name")
    ELSE Returned(plugin)

\* the operations createTableMethods returns, and those of the flat drafts
BuiltinOps == {"get", "list", "create", "update", "delete", "count", "exists"}
FlatBuiltinOps == {"getById", "getAll", "create", "update", "delete", "find", "count"}

\* the keys createCoreVaultMethods returns
CoreOps == {<<"sync">>, <<"refresh">>, <<"export">>, <<"stats">>, <<"query">>}

createCoreVaultMethods == [op \in CoreOps |-> [kind |-> "core", op |-> op]]

\* mkdir(dir, { recursive: true }): the directory and its missing ancestors
Ancestors(dir) ==
    {SubSeq(dir, 1, k) : k \in {j \in 1..Len(dir) : j = Len(dir) \/ dir[j + 1] = "/"}}

mkdir(tree, dirs) ==
    [d \in (DOMAIN tree) \cup UNION {Ancestors(dir) : dir \in dirs} |->
        IF d \in DOMAIN tree THEN tree[d] ELSE <<>>]

\* the object of one table: its built-in operations bound to the table's
\* directory, overlaid with the table's custom methods.  owner = <<i, k>>:
\* table k of plugin i of the configuration.
tableObject(owner, tablePath, builtins, customNames) ==
    LET baseMethods == [op \in builtins |->
                          [kind |-> "builtin", op |-> op, tablePath |-> tablePath]]
        tableMethods == [m \in customNames |-> [kind |-> "custom", name |-> m, owner |-> owner]]
    IN  [kind |-> "table", owner |-> owner, tablePath |-> tablePath,
         methods |-> Spread(baseMethods, tableMethods)]

\* vault.ts defineVault, one plugin: pluginObj[tableName] for every table,
\* then Object.assign(pluginObj, pluginMethods).  vault-clean.ts gives no
\* custom methods to a table named 'plugin'.
pluginObject(draft, vaultPath, plugin, i) ==
    LET tableAt(name) == CHOOSE k \in 1..Len(plugin.tables) : plugin.tables[k].name = name
        tables == [name \in {plugin.tables[k].name : k \in 1..Len(plugin.tables)} |->
                     tableObject(<<i, tableAt(name)>>,
                                 getTablePath(vaultPath, plugin.id, name),
                                 BuiltinOps,
                                 IF draft = "vault_clean" /\ name = <<"plugin">> THEN {}
                                 ELSE plugin.tables[tableAt(name)].methods)]
        pluginMethods == [m \in plugin.methods |-> [kind |-> "pluginMethod", name |-> m, owner |-> i]]
    IN  Spread(tables, pluginMethods)

\* the loop over config.plugins: vault[plugin.id] = pluginObj
RECURSIVE pluginObjects(_, _, _, _, _)
pluginObjects(draft, vaultPath, plugins, i, vault) ==
    IF i > Len(plugins) THEN vault
    ELSE pluginObjects(draft, vaultPath, plugins, i + 1,
            Spread(vault, Obj1(plugins[i].id, pluginObject(draft, vaultPath, plugins[i], i))))

\* vault.ts / vault-clean.ts defineVault(config): the directories it makes
\* and the vault it returns; it has no failing path
defineVault(draft, vaultPath, plugins) ==
    [mkdirs |-> {vaultPath}
                  \cup {getPluginPath(vaultPath, plugins[i].id) : i \in 1..Len(plugins)}
                  \cup UNION {{getTablePath(vaultPath, plugins[i].id, plugins[i].tables[k].name) :
                                  k \in 1..Len(plugins[i].tables)} : i \in 1..Len(plugins)},
     result |-> Returned(Spread(pluginObjects(draft, vaultPath, plugins, 1, EmptyObj),
                                createCoreVaultMethods))]

\* vault-final.ts defineVault(config): a flat vault keyed by
\* `${adapter.id}_${tableName}`.  The reduce validates the adapter id, then
\* refuses a full table name it has seen; the tables made before a throw
\* have had their directories requested.  Object.assign lays the adapter's
\* custom methods over the table it has just made.
FinalCoreOps == CoreOps \cup {<<"describe">>}

RECURSIVE finalTables(_, _, _, _, _)
finalTables(vaultPath, adapter, i, k, acc) ==
    IF k > Len(adapter.tables) THEN acc
    ELSE LET fullTableName == getSQLiteTableName(adapter.id, adapter.tables[k].name)
             tablePath == join(vaultPath, fullTableName)
         IN  IF fullTableName \in acc.tableNames
             THEN [acc EXCEPT !.error = "Duplicate table name"]
             ELSE finalTables(vaultPath, adapter, i, k + 1,
                     [tableNames |-> acc.tableNames \cup {fullTableName},
                      vault |-> Spread(acc.vault,
                                  Obj1(fullTableName,
                                       tableObject(<<i, k>>, tablePath, FlatBuiltinOps,
                                                   adapter.tables[k].methods))),
                      mkdirs |-> acc.mkdirs \cup {tablePath},
                      error |-> acc.error])

RECURSIVE finalAdapters(_, _, _, _)
finalAdapters(vaultPath, adapters, i, acc) ==
    IF i > Len(adapters) THEN acc
    ELSE IF ~isValidName(adapters[i].id) THEN [acc EXCEPT !.error = "Invalid adapter ID"]
    ELSE LET after == finalTables(vaultPath, adapters[i], i, 1, acc)
         IN  IF after.error # "none" THEN after
             ELSE finalAdapters(vaultPath, adapters, i + 1, after)

defineVault_final(vaultPath, adapters) ==
    LET acc == finalAdapters(vaultPath, adapters, 1,
                  [tableNames |-> {},
                   vault |-> [op \in FinalCoreOps |-> [kind |-> "core", op |-> op]],
                   mkdirs |-> {vaultPath},
                   error |-> "none"])
    IN  [mkdirs |-> acc.mkdirs,
         result |-> IF acc.error # "none" THEN Thrown(acc.error) ELSE Returned(acc.vault)]

\* the adapter draft's defineVault(config): a flat vault keyed by the schema
\* key.  The first adapter that declares a subfolder makes it; every adapter
\* lays its custom methods over the subfolders it names; the core methods are
\* spread last.
RECURSIVE baseSubfolders(_, _, _, _, _)
baseSubfolders(vaultPath, adapters, i, k, acc) ==
    IF i > Len(adapters) THEN acc
    ELSE IF k > Len(adapters[i].tables) THEN baseSubfolders(vaultPath, adapters, i + 1, 1, acc)
    ELSE LET subfolder == adapters[i].tables[k].name
         IN  baseSubfolders(vaultPath, adapters, i, k + 1,
                IF Has(acc, subfolder) THEN acc
                ELSE Spread(acc, Obj1(subfolder,
                        tableObject(<<i, k>>, join(vaultPath, subfolder), FlatBuiltinOps, {}))))

RECURSIVE subfolderMethods(_, _, _, _)
subfolderMethods(adapters, i, k, acc) ==
    IF i > Len(adapters) THEN acc
    ELSE IF k > Len(adapters[i].tables) THEN subfolderMethods(adapters, i + 1, 1, acc)
    ELSE LET subfolder == adapters[i].tables[k].name
             methods == [m \in adapters[i].tables[k].methods |->
                           [kind |-> "custom", name |-> m, owner |-> <<i, k>>]]
         IN  subfolderMethods(adapters, i, k + 1,
                [acc EXCEPT ![subfolder].methods = Spread(@, methods)])

defineVault_adapter(vaultPath, adapters) ==
    LET subfolders == subfolderMethods(adapters, 1, 1,
                         baseSubfolders(vaultPath, adapters, 1, 1, EmptyObj))
    IN  [mkdirs |-> {vaultPath} \cup {join(vaultPath, subfolder) : subfolder \in DOMAIN subfolders},
         result |-> Returned(Spread(subfolders, createCoreVaultMethods))]

\* Plugins the model composes
Plugin(id, tables, methods) == [id |-> id, tables |-> tables, methods |-> methods]
Table(name, methods) == [name |-> name, methods |-> methods]

PluginInputs ==
    {Plugin(<<"blog">>, <<Table(<<"posts">>, {"top"}), Table(<<"comments">>, {})>>, {<<"top">>}),
     Plugin(<<"blog">>, <<Table(<<"posts">>, {})>>, {}),
     Plugin(<<"a", "_", "b">>, <<Table(<<"c">>, {})>>, {}),
     Plugin(<<"a">>, <<Table(<<"b", "_", "c">>, {})>>, {}),
     Plugin(<<"Blog">>, <<Table(<<"posts">>, {})>>, {}),
     Plugin(<<"reddit">>, <<Table(<<"9", "posts">>, {})>>, {}),
     Plugin(<<"reddit">>, <<Table(<<"posts">>, {"list"})>>, {}),
     Plugin(<<"stats">>, <<Table(<<"posts">>, {})>>, {}),
     Plugin(<<"reddit">>, <<Table(<<"posts">>, {})>>, {<<"posts">>})}

MaxPlugins == 2

Configs == UNION {[1..n -> PluginInputs] : n \in 1..MaxPlugins}

\* vault.ts 18-72, the adapter draft with createSubfolderProxy: the first
\* pass makes baseVault[subfolder] for every adapter and a later adapter's
\* subfolder replaces an earlier one of the same name; the second pass lays
\* the custom methods over it; the core methods are $-prefixed.
ProxyCoreOps == {<<"$sync">>, <<"$refresh">>, <<"$export">>, <<"$stats">>, <<"$query">>}

RECURSIVE baseVault(_, _, _, _, _)
baseVault(vaultPath, adapters, i, k, acc) ==
    IF i > Len(adapters) THEN acc
    ELSE IF k > Len(adapters[i].tables) THEN baseVault(vaultPath, adapters, i + 1, 1, acc)
    ELSE LET subfolder == adapters[i].tables[k].name
         IN  baseVault(vaultPath, adapters, i, k + 1,
                Spread(acc, Obj1(subfolder,
                    tableObject(<<i, k>>, join(vaultPath, subfolder), FlatBuiltinOps, {}))))

defineVault_proxy(vaultPath, adapters) ==
    LET subfolders == subfolderMethods(adapters, 1, 1,
                         baseVault(vaultPath, adapters, 1, 1, EmptyObj))
    IN  [mkdirs |-> {vaultPath} \cup {join(vaultPath, subfolder) : subfolder \in DOMAIN subfolders},
         result |-> Returned(Spread(subfolders, [op \in ProxyCoreOps |-> [kind |-> "core", op |-> op]]))]

\* the drafts an implementation stands for when a vault is composed: the
\* adapter engine is composed by part_006 or by vault.ts 18-72
Drafts(i) == IF i = "vault_adapter" THEN {"vault_adapter", "vault_proxy"} ELSE {i}

\* plugin.methods / adapter.methods is declared.  In vault.ts 339 it holds
\* the plugin-level methods; in the other drafts it is the builder of the
\* table-level and plugin-level methods.
HasMethods(draft, plugin) ==
    \/ plugin.methods # {}
    \/ draft # "vault" /\ \E k \in 1..Len(plugin.tables) : plugin.tables[k].methods # {}

TableNames(plugin) == {plugin.tables[k].name : k \in 1..Len(plugin.tables)}

\* the context handed to the custom methods of plugin i, as it is when the
\* vault is returned, and the keys it had when it was handed over.
\*   vault.ts 339-346   pluginObj, to which the plugin's methods are assigned
\*                      after the hand-over
\*   vault-clean.ts     vaultContext[tableName] = pluginObj[tableName]
\*   vault-final.ts     ctx[tableName] = accumulator[`${adapter.id}_${tableName}`]
\*   part_006           ctx[subfolder] = acc[subfolder], the adapter's own keys
\*   vault.ts 28-57     baseVault, the subfolders of every adapter
vaultContext(draft, vaultPath, plugins, vault, i) ==
    LET plugin == plugins[i] IN
    IF draft = "vault"
    THEN [handedKeys |-> TableNames(plugin),
          context |-> pluginObject(draft, vaultPath, plugin, i)]
    ELSE IF draft = "vault_clean"
    THEN [handedKeys |-> TableNames(plugin),
          context |-> pluginObject(draft, vaultPath, [plugin EXCEPT !.methods = {}], i)]
    ELSE IF draft = "vault_final"
    THEN [handedKeys |-> TableNames(plugin),
          context |-> [name \in TableNames(plugin) |->
                          vault[getSQLiteTableName(plugin.id, name)]]]
    ELSE IF draft = "vault_adapter"
    THEN [handedKeys |-> TableNames(plugin),
          context |-> [name \in TableNames(plugin) |-> vault[name]]]
    ELSE [handedKeys |-> UNION {TableNames(plugins[j]) : j \in 1..Len(plugins)},
          context |-> [name \in UNION {TableNames(plugins[j]) : j \in 1..Len(plugins)} |->
                          vault[name]]]

vaultContexts(draft, vaultPath, plugins, built) ==
    IF built.result.kind = "error" THEN EmptyObj
    ELSE [i \in {j \in 1..Len(plugins) : HasMethods(draft, plugins[j])} |->
             vaultContext(draft, vaultPath, plugins, built.result.value, i)]

\* defineVault(config), once, over an empty disk.  viaDefinePlugin: every
\* plugin of the configuration is the return value of definePlugin, so an
\* invalid one throws before defineVault is reached.  The drafts other than
\* vault.ts call the promise-returning mkdir without awaiting it: of the
\* directories requested, any may exist when defineVault returns.
DefineVault(plugins, viaDefinePlugin) ==
    LET refused == {i \in 1..Len(plugins) : definePlugin(plugins[i]).kind = "error"}
        first == CHOOSE i \in refused : \A j \in refused : i <= j
        Built(draft) ==
            IF draft \in {"vault", "vault_clean"} THEN defineVault(draft, VaultPath, plugins)
            ELSE IF draft = "vault_final" THEN defineVault_final(VaultPath, plugins)
            ELSE IF draft = "vault_adapter" THEN defineVault_adapter(VaultPath, plugins)
            ELSE defineVault_proxy(VaultPath, plugins)
        input == [plugins |-> plugins, viaDefinePlugin |-> viaDefinePlugin]
    IN  /\ last.op = "start"
        /\ viaDefinePlugin => impl \in {"vault", "vault_clean"}
        /\ IF viaDefinePlugin /\ refused # {}
           THEN /\ fs' = fs
                /\ last' = Spread(Call("defineVault", <<>>, <<>>, input, <<>>,
                                       definePlugin(plugins[first])),
                                  [draft |-> impl, contexts |-> EmptyObj])
           ELSE \E draft \in Drafts(impl) :
                /\ \E completed \in (IF draft = "vault" THEN {Built(draft).mkdirs}
                                      ELSE SUBSET Built(draft).mkdirs) :
                      fs' = mkdir(fs, completed)
                /\ last' = Spread(Call("defineVault", <<>>, <<>>, input, <<>>,
                                       Built(draft).result),
                                  [draft |-> draft,
                                   contexts |-> vaultContexts(draft, VaultPath, plugins,
                                                              Built(draft))])
        /\ UNCHANGED <<impl, now>>

InitCompose ==
    /\ impl \in Impl
    /\ fs = EmptyObj
    /\ now = 1
    /\ last = Call("start", <<>>, <<>>, EmptyObj, <<>>, Returned(EmptyObj))

NextCompose ==
    \E plugins \in Configs : \E viaDefinePlugin \in BOOLEAN :
        DefineVault(plugins, viaDefinePlugin)

SpecCompose == InitCompose /\ [][NextCompose]_vars

----------------------------------------------------------------------------
(* Actions: validateWithSchema and the executable methods that              *)
(* createMethodsForTable / createMethodsForPlugin build.  A validator is a  *)
(* StandardSchema: validate(value) is { value } or { issues }; an issue is  *)
(* [message, path], a path segment is a key ([plain |-> k]) or a            *)
(* PathSegment object ([key |-> k]).                                        *)

\* inputs handed to an action
ActionInputs ==
    {[title |-> "hi"],
     EmptyObj,
     [meta |-> [tag |-> 5]],
     [title |-> "hi", meta |-> [tag |-> 5]],
     [title |-> "hi", extra |-> 1]}

\* a validator of post inputs: title is required, meta.tag is a string, no
\* unknown key; it reports every issue it finds and fills in score
PostInputIssues(value) ==
    (IF ~Has(value, "title")
     THEN <<[message |-> "is required", path |-> <<[plain |-> "title"]>>]>> ELSE <<>>)
    \o (IF Has(value, "meta")
        THEN <<[message |-> "must be a string",
                path |-> <<[key |-> "meta"], [plain |-> "tag"]>>]>> ELSE <<>>)
    \o (IF Has(value, "extra")
        THEN <<[message |-> "unexpected key", path |-> <<>>]>> ELSE <<>>)

PostInput ==
    [standard |->
        [version |-> 1,
         validate |-> [value \in ActionInputs |->
                         IF PostInputIssues(value) # <<>>
                         THEN [issues |-> PostInputIssues(value)]
                         ELSE [value |-> Spread([score |-> 0], value)]]]]

\* Array.prototype.join(separator) on a sequence of strings
RECURSIVE joinWith(_, _)
joinWith(strings, separator) ==
    IF strings = <<>> THEN <<>>
    ELSE IF Len(strings) = 1 THEN strings[1]
    ELSE strings[1] \o separator \o joinWith(Tail(strings), separator)

\* typeof segment === 'object' && 'key' in segment ? segment.key : segment
segmentKey(segment) == IF Has(segment, "key") THEN segment.key ELSE segment.plain

\* issue => path ? `${path.join('.')}: ${issue.message}` : issue.message
issueMessage(issue) ==
    IF Len(issue.path) > 0
    THEN joinWith([k \in 1..Len(issue.path) |-> <<segmentKey(issue.path[k])>>], <<".">>)
            \o <<": ", issue.message>>
    ELSE <<issue.message>>

\* validateWithSchema that reports the first issue only
validateWithSchema_firstIssue(schema, data) ==
    LET validationResult == schema.standard.validate[data] IN
    IF Has(validationResult, "issues")
    THEN Thrown(<<"Validation failed:", "\n">> \o issueMessage(validationResult.issues[1]))
    ELSE Returned(validationResult.value)

\* validateWithSchema(schema, data): the validated value, or an Error whose
\* message lists every issue
validateWithSchema(schema, data) ==
    LET validationResult == schema.standard.validate[data] IN
    IF Has(validationResult, "issues")
    THEN LET messages == [k \in 1..Len(validationResult.issues) |->
                            issueMessage(validationResult.issues[k])]
         IN  Thrown(<<"Validation failed:", "\n">> \o joinWith(messages, <<"\n">>))
    ELSE Returned(validationResult.value)

\* the methods the model's plugin declares: on table posts, add (a mutation
\* that creates a record from its input), top (a query that lists) and raw
\* (a mutation whose input is not a StandardSchema); on the plugin, addPost
\* and summary
TableMethodDefs ==
    [add |-> [type |-> "mutation", input |-> PostInput, handler |-> "create"],
     top |-> [type |-> "query", input |-> PostInput, handler |-> "list"],
     raw |-> [type |-> "mutation", input |-> EmptyObj, handler |-> "create"]]

PluginMethodDefs ==
    [addPost |-> [type |-> "mutation", input |-> PostInput, handler |-> "createPost"],
     summary |-> [type |-> "query", input |-> PostInput, handler |-> "listPosts"]]

\* the plugin these methods belong to, as defineVault receives it
RedditPlugin ==
    Plugin(<<"reddit">>,
           <<Table(<<"posts">>, DOMAIN TableMethodDefs), Table(<<"comments">>, {})>>,
           {<<"addPost">>, <<"summary">>})

\* the context of a table-level method: baseMethods, the built-in operations
\* of the table
tableContext(tablePath) ==
    [op \in BuiltinOps |-> [kind |-> "builtin", op |-> op, tablePath |-> tablePath]]

\* the context of a plugin-level method: pluginObj, which by the time of a
\* call holds the plugin's tables and, after Object.assign, its methods
pluginContext == pluginObject("vault", VaultPath, RedditPlugin, 1)

\* a handler of the model's plugin: context.create(input), context.list(),
\* context.posts.create(input), context.posts.list()
handler(methodDef, input, context, tree, id, files) ==
    LET tablePath == IF methodDef.handler \in {"create", "list"}
                     THEN context[methodDef.handler].tablePath
                     ELSE context[<<"posts">>].tablePath
    IN  IF methodDef.handler \in {"create", "createPost"}
        THEN create(tree, tablePath, Schema(<< <<"reddit">>, <<"posts">> >>), input, id)
        ELSE [tree |-> tree, result |-> Returned(list(tree, tablePath, files))]

\* an executable method that hands its handler the input it was given
executeMethod_rawInput(methodDef, context, input, tree, id, files) ==
    LET validated == IF Has(methodDef.input, "standard")
                     THEN validateWithSchema(methodDef.input, input)
                     ELSE Returned(input)
    IN  IF validated.kind = "error"
        THEN [tree |-> tree, result |-> validated, handled |-> <<>>]
        ELSE LET done == handler(methodDef, input, context, tree, id, files)
             IN  [tree |-> done.tree, result |-> done.result,
                  handled |-> <<[input |-> input, context |-> context]>>]

\* executableMethods[methodName](input): validate when the definition has a
\* StandardSchema, then run the handler with the validated input and the
\* context.  handled is the sequence of the handler's invocations.
executeMethod(methodDef, context, input, tree, id, files) ==
    LET validated == IF Has(methodDef.input, "standard")
                     THEN validateWithSchema(methodDef.input, input)
                     ELSE Returned(input)
    IN  IF validated.kind = "error"
        THEN [tree |-> tree, result |-> validated, handled |-> <<>>]
        ELSE LET done == handler(methodDef, validated.value, context, tree, id, files)
             IN  [tree |-> done.tree, result |-> done.result,
                  handled |-> <<[input |-> validated.value, context |-> context]>>]

\* vault.reddit.posts[name](input) and vault.reddit[name](input)
Invoke(level, defs, name, input, random) ==
    LET t == << <<"reddit">>, <<"posts">> >>
        dir == TableDir(impl, t)
        id == generateRecordId(IdPrefix(impl, t), now, random)
        context == IF level = "table" THEN tableContext(dir) ELSE pluginContext
    IN  /\ FileCount(fs, DOMAIN fs) < MaxFiles
        /\ \E files \in readdir(fs, dir) :
              LET done == executeMethod(defs[name], context, input, fs, id, files)
              IN  /\ fs' = done.tree
                  /\ last' = [op |-> "invoke", table |-> t, id |-> id, input |-> input,
                              readdir |-> files, result |-> done.result,
                              level |-> level, method |-> name, handled |-> done.handled]
        /\ UNCHANGED <<impl, now>>

InvokeTableMethod(name, input, random) == Invoke("table", TableMethodDefs, name, input, random)

InvokePluginMethod(name, input, random) == Invoke("plugin", PluginMethodDefs, name, input, random)

InitActions == InitWith({"vault"})

NextActions ==
    \/ Tick
    \/ \E name \in DOMAIN TableMethodDefs : \E input \in ActionInputs :
          \E random \in RandomSuffixes : InvokeTableMethod(name, input, random)
    \/ \E name \in DOMAIN PluginMethodDefs : \E input \in ActionInputs :
          \E random \in RandomSuffixes : InvokePluginMethod(name, input, random)

SpecActions == InitActions /\ [][NextActions]_vars

----------------------------------------------------------------------------
(* Core vault methods of vault.ts: stats *)

\* configurations whose statistics are asked for: the documented plugin, the
\* same table declared by two plugins of one id, a plugin-level method named
\* as the table
StatsConfigs ==
    {<<RedditPlugin>>,
     <<Plugin(<<"reddit">>, <<Table(<<"posts">>, {})>>, {}),
       Plugin(<<"reddit">>, <<Table(<<"posts">>, {}), Table(<<"comments">>, {})>>, {})>>,
     <<Plugin(<<"reddit">>, <<Table(<<"posts">>, {}), Table(<<"comments">>, {})>>,
              {<<"posts">>})>>}

\* table.count() of a composed table object: list().length
tableCount(tree, table) ==
    IF ~existsSyncDir(tree, table.tablePath) THEN 0
    ELSE count(tree, table.tablePath, CHOOSE files \in readdir(tree, table.tablePath) : TRUE)

\* the loop of stats() over config.plugins and Object.keys(plugin.tables)
RECURSIVE statsLoop(_, _, _, _, _, _)
statsLoop(plugins, vault, tree, i, k, acc) ==
    IF i > Len(plugins) THEN acc
    ELSE IF k > Len(plugins[i].tables) THEN statsLoop(plugins, vault, tree, i + 1, 1, acc)
    ELSE LET tableName == plugins[i].tables[k].name
             pluginObj == vault[plugins[i].id]
             counted == /\ Has(pluginObj, tableName)
                        /\ pluginObj[tableName].kind = "table"
                        /\ Has(pluginObj[tableName].methods, "count")
             n == tableCount(tree, pluginObj[tableName])
             key == plugins[i].id \o <<".">> \o tableName
         IN  statsLoop(plugins, vault, tree, i, k + 1,
                IF counted
                THEN [tableStats |-> Spread(acc.tableStats, Obj1(key, n)),
                      totalRecords |-> acc.totalRecords + n]
                ELSE acc)

\* vault.stats()
stats(plugins, vault, tree) ==
    LET acc == statsLoop(plugins, vault, tree, 1, 1, [tableStats |-> EmptyObj, totalRecords |-> 0])
    IN  [plugins |-> Len(plugins),
         tables |-> Cardinality(DOMAIN acc.tableStats),
         totalRecords |-> acc.totalRecords,
         tableStats |-> acc.tableStats,
         lastSync |-> null]

\* vault.stats() on the vault that defineVault made of the configuration
Stats(plugins) ==
    /\ last' = Call("stats", <<>>, <<>>, [plugins |-> plugins], <<>>,
                    Returned(stats(plugins,
                                   defineVault(impl, VaultPath, plugins).result.value, fs)))
    /\ UNCHANGED <<impl, fs, now>>

InitStats == InitWith({"vault"})

NextStats ==
    \/ Tick
    \/ \E t \in Tables : \E record \in QueryCreateInputs(t) : \E random \in RandomSuffixes :
          Create(t, record, random)
    \/ \E t \in Tables : \E id \in AskedIds(fs, TableDir(impl, t), t, last) : Delete(t, id)
    \/ \E plugins \in StatsConfigs : Stats(plugins)

SpecStats == InitStats /\ [][NextStats]_vars

----------------------------------------------------------------------------
(* Core vault methods: export('sql') of vault.ts and of vault-final.ts.  A  *)
(* line is a sequence of tokens; the export is its lines joined by "\n".    *)

ExportConfigs ==
    {<<RedditPlugin>>,
     <<Plugin(<<"a", "_", "b">>, <<Table(<<"c">>, {})>>, {}),
       Plugin(<<"a">>, <<Table(<<"b", "_", "c">>, {})>>, {})>>}

\* the statements pushed for one table
createTableStatement(sqliteTableName) ==
    <<<<"CREATE TABLE IF NOT EXISTS ">> \o sqliteTableName \o <<" (">>,
      <<"  id TEXT PRIMARY KEY,">>,
      <<"  content TEXT,">>,
      <<"  created_at DATETIME DEFAULT CURRENT_TIMESTAMP">>,
      <<");">>,
      <<>>>>

\* vault.ts: for (const plugin of config.plugins)
\*              for (const tableName of Object.keys(plugin.tables))
RECURSIVE sqlStatements(_, _, _)
sqlStatements(plugins, i, k) ==
    IF i > Len(plugins) THEN <<>>
    ELSE IF k > Len(plugins[i].tables) THEN sqlStatements(plugins, i + 1, 1)
    ELSE LET tableName == plugins[i].tables[k].name
         IN  <<<<"-- Plugin: ">> \o plugins[i].id \o <<", Table: ">> \o tableName>>
                \o createTableStatement(getSQLiteTableName(plugins[i].id, tableName))
                \o sqlStatements(plugins, i, k + 1)

\* vault.ts export('sql')
export_sql(plugins) == joinWith(sqlStatements(plugins, 1, 1), <<"\n">>)

\* vault-final.ts: the full table names in the order the Set received them
RECURSIVE tableNamesOf(_, _, _)
tableNamesOf(adapters, i, k) ==
    IF i > Len(adapters) THEN <<>>
    ELSE IF k > Len(adapters[i].tables) THEN tableNamesOf(adapters, i + 1, 1)
    ELSE <<getSQLiteTableName(adapters[i].id, adapters[i].tables[k].name)>>
            \o tableNamesOf(adapters, i, k + 1)

\* value is a table: it has getAll, getById, create, update, delete, count
isTable(value) ==
    /\ value.kind = "table"
    /\ {"getAll", "getById", "create", "update", "delete", "count"} \subseteq DOMAIN value.methods

RECURSIVE createStatements(_)
createStatements(tableNames) ==
    IF tableNames = <<>> THEN <<>>
    ELSE createTableStatement(Head(tableNames)) \o createStatements(Tail(tableNames))

\* for (const [name, value] of Object.entries(this)) if (isTable(value))
\*     one line per record of value.getAll()
RECURSIVE insertStatements(_, _, _)
insertStatements(tableNames, vault, tree) ==
    IF tableNames = <<>> THEN <<>>
    ELSE LET name == Head(tableNames)
             records == IF isTable(vault[name]) THEN tableCount(tree, vault[name]) ELSE 0
         IN  [j \in 1..records |-> <<"-- INSERT INTO ">> \o name \o <<" ...">>]
                \o insertStatements(Tail(tableNames), vault, tree)

\* vault-final.ts export('sql')
export_sql_final(adapters, vault, tree) ==
    joinWith(createStatements(tableNamesOf(adapters, 1, 1))
                \o insertStatements(tableNamesOf(adapters, 1, 1), vault, tree),
             <<"\n">>)

\* vault.export('sql') on the vault that defineVault made of the configuration
ExportSql(plugins) ==
    LET built == IF impl = "vault" THEN defineVault(impl, VaultPath, plugins)
                 ELSE defineVault_final(VaultPath, plugins)
    IN  /\ built.result.kind = "value"
        /\ last' = Call("export", <<>>, <<>>, [plugins |-> plugins, format |-> "sql"], <<>>,
                        Returned(IF impl = "vault" THEN export_sql(plugins)
                                 ELSE export_sql_final(plugins, built.result.value, fs)))
        /\ UNCHANGED <<impl, fs, now>>

InitExport == InitWith({"vault", "vault_final"})

NextExport ==
    \/ Tick
    \/ \E t \in Tables : \E record \in QueryCreateInputs(t) : \E random \in RandomSuffixes :
          Create(t, record, random)
    \/ \E plugins \in ExportConfigs : ExportSql(plugins)

SpecExport == InitExport /\ [][NextExport]_vars

----------------------------------------------------------------------------
(* The hooks of the shipped adapters (adapters/reddit.ts, adapters/twitter.ts).*)
(* A field a hook tests with typeof holds a tagged value: a string, a Date   *)
(* or an array.  An id is a string of tokens.                                *)

String(v) == [type |-> "string", v |-> v]
Date(v) == [type |-> "Date", v |-> v]
Array(v) == [type |-> "array", v |-> v]

\* record.id?.startsWith(prefix + '_')
startsWith(id, prefix) == Len(id) >= 2 /\ id[1] = prefix /\ id[2] = "_"

\* if (!record.id?.startsWith(`${prefix}_`)) record.id = `${prefix}_${record.id || Date.now()}`
prefixId(record, prefix, timestamp) ==
    IF Has(record, "id") /\ startsWith(record.id, prefix) THEN record
    ELSE Spread(record, Obj1("id",
            <<prefix, "_">> \o (IF Has(record, "id") /\ record.id # <<>>
                                THEN record.id ELSE <<ToString(timestamp)>>)))

\* if (record.created_at && typeof record.created_at === 'string')
\*     record.created_at = new Date(record.created_at)
parseDates(record) ==
    IF Has(record, "created_at") /\ record.created_at.type = "string"
          /\ record.created_at.v # <<>>
    THEN Spread(record, Obj1("created_at", Date(record.created_at.v)))
    ELSE record

\* text.match(/#\w+/g).map(h => h.slice(1)): the words after a marker
RECURSIVE wordsAfter(_, _)
wordsAfter(text, mark) ==
    IF Len(text) < 2 THEN <<>>
    ELSE IF text[1] = mark THEN <<text[2]>> \o wordsAfter(Tail(Tail(text)), mark)
    ELSE wordsAfter(Tail(text), mark)

\* if (record.text && !record[field]) record[field] = the words after the mark
parseMarked(record, field, mark) ==
    IF Has(record, "text") /\ record.text.v # <<>> /\ ~Has(record, field)
    THEN Spread(record, Obj1(field, Array(wordsAfter(record.text.v, mark))))
    ELSE record

\* if (typeof record[field] === 'string') try { record[field] = JSON.parse(...) } catch {}
parseArray(record, field) ==
    IF Has(record, field) /\ record[field].type = "string"
          /\ Len(record[field].v) >= 2
          /\ record[field].v[1] = "[" /\ record[field].v[Len(record[field].v)] = "]"
    THEN Spread(record, Obj1(field,
            Array(SubSeq(record[field].v, 2, Len(record[field].v) - 1))))
    ELSE record

\* redditAdapter.hooks, twitterAdapter.hooks
beforeWrite(adapter, record, timestamp) ==
    IF adapter = "reddit" THEN parseDates(prefixId(record, "reddit", timestamp))
    ELSE parseMarked(parseMarked(parseDates(prefixId(record, "twitter", timestamp)),
                                 "hashtags", "#"),
                     "mentions", "@")

afterRead(adapter, record) ==
    IF adapter = "reddit" THEN parseDates(record)
    ELSE parseArray(parseArray(parseDates(record), "hashtags"), "mentions")

Adapters == {"reddit", "twitter"}
Hooks == {"beforeWrite", "afterRead"}

\* records handed to a hook
HookIds == {<<"reddit", "_", "posts", "_", "1", "_", "k3">>, <<"twitter", "_", "7">>, <<"abc">>}

HookRecords ==
    {Spread(Spread(a, b), Spread(c, d)) :
        a \in {EmptyObj} \cup {[id |-> id] : id \in HookIds},
        b \in {EmptyObj, [created_at |-> String(<<"2024">>)], [created_at |-> Date(<<"2024">>)]},
        c \in {EmptyObj, [text |-> String(<<"hi", "#", "tla", "@", "bob">>)]},
        d \in {EmptyObj, [hashtags |-> String(<<"[", "tla", "]">>)],
                         [hashtags |-> Array(<<"tla">>)]}}

\* records created through the engine of an adapter that declares hooks
HookCreateInputs ==
    {[title |-> "hi"], [title |-> "hi", created_at |-> String(<<"2024">>)]}

\* adapter.hooks[hook](record)
ApplyHook(adapter, hook, record) ==
    /\ last' = Call("hook", <<>>, IF Has(record, "id") THEN record.id ELSE <<>>,
                    [adapter |-> adapter, hook |-> hook, record |-> record], <<>>,
                    Returned(IF hook = "beforeWrite" THEN beforeWrite(adapter, record, now)
                             ELSE afterRead(adapter, record)))
    /\ UNCHANGED <<impl, fs, now>>

\* vault-final.ts over the reddit adapter, which declares hooks, and the
\* hooks themselves
InitHooks == InitWith({"vault_final"})

NextHooks ==
    \/ Tick
    \/ \E record \in HookCreateInputs : \E random \in RandomSuffixes :
          Create(<< <<"reddit">>, <<"posts">> >>, record, random)
    \/ \E t \in Tables : \E id \in AskedIds(fs, TableDir(impl, t), t, last) : Get(t, id)
    \/ \E adapter \in Adapters : \E hook \in Hooks : \E record \in HookRecords :
          ApplyHook(adapter, hook, record)

SpecHooks == InitHooks /\ [][NextHooks]_vars

----------------------------------------------------------------------------
(* Two calls of the vault.ts table engine in flight at once.  A call runs   *)
(* its synchronous part (existsSync, the computation of the file text) when *)
(* it is made or when the awaited step before it resolves; every awaited    *)
(* node:fs operation is a step of its own, and the steps of the two calls   *)
(* interleave.  fs.promises.writeFile is open(path, 'w'), which creates or  *)
(* truncates the file, then write at offset 0, then close: a second writer  *)
(* of the same path may open between the two.                               *)
(* In this specification last holds the two calls (calls), the tree they    *)
(* started on (start) and the steps taken so far (log).                     *)

ConcTable == << <<"reddit">>, <<"posts">> >>
ConcDir == TableDir("vault", ConcTable)

IdA == <<"reddit", "_", "posts", "_", "0", "_", "a1">>
IdB == <<"reddit", "_", "posts", "_", "0", "_", "b2">>

\* the trees the calls start on: any of two records is there
StartTrees ==
    {[dir \in {ConcDir} |->
        [name \in {Append(id, ".md") : id \in ids} |->
            matter_stringify(<<"old", "text">>,
                             [title |-> "hi", score |-> 0, id |-> parseRecordFilename(name)])]] :
     ids \in SUBSET {IdA, IdB}}

ConcUpdateInputs == {[title |-> "nope"], [content |-> <<"new">>]}
ConcCreateInputs == {[title |-> "hi"]}

\* a file just opened with flag 'w'
EmptyFile == [data |-> EmptyObj, body |-> <<>>]

RECURSIVE SetToSeq(_)
SetToSeq(S) ==
    IF S = {} THEN <<>>
    ELSE LET x == CHOOSE y \in S : TRUE IN <<x>> \o SetToSeq(S \ {x})

\* the text of a file from its first position: the header's fields, then the
\* body
serial(file) == SetToSeq(DOMAIN file.data) \o file.body

\* write(fd, text, 0) on a file that holds current: the text replaces the
\* beginning, what lies beyond its end stays
overlay(current, text) ==
    IF Len(serial(text)) >= Len(serial(current)) THEN text
    ELSE [data |-> text.data,
          body |-> text.body \o SubSeq(serial(current), Len(serial(text)) + 1,
                                       Len(serial(current)))]

Pending == [kind |-> "pending"]

Idle ==
    [op |-> "none", pc |-> "idle", id |-> <<>>, input |-> EmptyObj, text |-> EmptyFile,
     returns |-> null, files |-> <<>>, pending |-> {}, records |-> EmptyObj,
     result |-> Pending]

Settle(call, result) == [call EXCEPT !.pc = "done", !.result = result]

\* the step of call k leaves the call as c
Step(k, name, c) ==
    last' = [last EXCEPT !.calls[k] = c, !.log = Append(@, <<k, name>>)]

\* const { data, content: body } = matter(content); return { ...data, id, content: body }
decode(tree, path, id) ==
    LET parsed == matter(readFile(tree, path)) IN
    Spread(Spread(parsed.data, Obj1("id", id)), Obj1("content", parsed.content))

\* get({ id }) is called: existsSync, then readFile is awaited
BeginGet(k, id) ==
    /\ last.calls[k].pc = "idle"
    /\ Step(k, "get",
            LET c == [Idle EXCEPT !.op = "get", !.id = id] IN
            IF existsSync(fs, getRecordPath(ConcDir, id)) THEN [c EXCEPT !.pc = "read"]
            ELSE Settle(c, Returned(null)))
    /\ UNCHANGED <<impl, fs, now>>

\* update({ id, ...updates }) is called: this.get({ id }) tests the file
BeginUpdate(k, id, updates) ==
    /\ last.calls[k].pc = "idle"
    /\ Step(k, "update",
            LET c == [Idle EXCEPT !.op = "update", !.id = id, !.input = updates] IN
            IF existsSync(fs, getRecordPath(ConcDir, id)) THEN [c EXCEPT !.pc = "read"]
            ELSE Settle(c, Thrown("Record not found")))
    /\ UNCHANGED <<impl, fs, now>>

\* delete({ id }) is called: existsSync, then unlink is awaited
BeginDelete(k, id) ==
    /\ last.calls[k].pc = "idle"
    /\ Step(k, "delete",
            LET c == [Idle EXCEPT !.op = "delete", !.id = id] IN
            IF existsSync(fs, getRecordPath(ConcDir, id)) THEN [c EXCEPT !.pc = "unlink"]
            ELSE Settle(c, Returned(FALSE)))
    /\ UNCHANGED <<impl, fs, now>>

\* create(record) is called: the id and the file text are computed, then
\* writeFile is awaited
BeginCreate(k, record, random) ==
    LET id == generateRecordId(IdPrefix("vault", ConcTable), now, random)
        done == create(EmptyObj @@ [dir \in {ConcDir} |-> <<>>], ConcDir, Schema(ConcTable),
                       record, id)
    IN  /\ last.calls[k].pc = "idle"
        /\ Step(k, "create",
                [Idle EXCEPT !.op = "create", !.id = id, !.input = record, !.pc = "open",
                             !.text = readFile(done.tree, getRecordPath(ConcDir, id)),
                             !.returns = done.result.value])
        /\ UNCHANGED <<impl, fs, now>>

\* list() is called: existsSync(tablePath), then readdir is awaited
BeginList(k) ==
    /\ last.calls[k].pc = "idle"
    /\ Step(k, "list",
            LET c == [Idle EXCEPT !.op = "list"] IN
            IF existsSyncDir(fs, ConcDir) THEN [c EXCEPT !.pc = "readdir"]
            ELSE Settle(c, Returned(<<>>)))
    /\ UNCHANGED <<impl, fs, now>>

\* readFile resolves or rejects; get returns the record; update computes the
\* text it writes and awaits writeFile
ReadFile(k) ==
    LET c == last.calls[k]
        path == getRecordPath(ConcDir, c.id)
        existing == decode(fs, path, c.id)
        content == IF Has(c.input, "content") THEN c.input.content ELSE existing.content
        frontMatter == Omit(c.input, {"content"})
    IN  /\ c.pc = "read"
        /\ Step(k, "read",
                IF ~existsSync(fs, path) THEN Settle(c, Thrown("ENOENT"))
                ELSE IF c.op = "get" THEN Settle(c, Returned(existing))
                ELSE [c EXCEPT !.pc = "open",
                               !.text = matter_stringify(content,
                                            Spread(frontMatter, Obj1("id", c.id))),
                               !.returns = Spread(Spread(existing, frontMatter),
                                                  Obj1("content", content))])
        /\ UNCHANGED <<impl, fs, now>>

\* writeFile: open(path, 'w')
OpenFile(k) ==
    LET c == last.calls[k] IN
    /\ c.pc = "open"
    /\ fs' = writeFile(fs, getRecordPath(ConcDir, c.id), EmptyFile)
    /\ Step(k, "open", [c EXCEPT !.pc = "write"])
    /\ UNCHANGED <<impl, now>>

\* writeFile: write and close; the call returns.  A file unlinked since it
\* was opened is written out of sight.
WriteFile(k) ==
    LET c == last.calls[k]
        path == getRecordPath(ConcDir, c.id)
    IN  /\ c.pc = "write"
        /\ fs' = IF existsSync(fs, path)
                 THEN writeFile(fs, path, overlay(readFile(fs, path), c.text))
                 ELSE fs
        /\ Step(k, "write", Settle(c, Returned(c.returns)))
        /\ UNCHANGED <<impl, now>>

\* unlink resolves or rejects
Unlink(k) ==
    LET c == last.calls[k]
        path == getRecordPath(ConcDir, c.id)
    IN  /\ c.pc = "unlink"
        /\ fs' = IF existsSync(fs, path) THEN unlink(fs, path) ELSE fs
        /\ Step(k, "unlink",
                IF existsSync(fs, path) THEN Settle(c, Returned(TRUE))
                ELSE Settle(c, Thrown("ENOENT")))
        /\ UNCHANGED <<impl, now>>

\* readdir resolves with the names of the moment
Readdir(k) ==
    LET c == last.calls[k] IN
    /\ c.pc = "readdir"
    /\ \E files \in readdir(fs, ConcDir) :
          Step(k, "readdir", [c EXCEPT !.pc = "check", !.files = files])
    /\ UNCHANGED <<impl, fs, now>>

\* mdFiles.map(file => this.get(...)): every get tests its file at once and
\* awaits readFile; a file that is gone gives null
CheckFiles(k) ==
    LET c == last.calls[k]
        mdFiles == FilterSeq(c.files, {f \in Range(c.files) : isMarkdownFile(f)})
        pending == {f \in Range(mdFiles) :
                      existsSync(fs, getRecordPath(ConcDir, parseRecordFilename(f)))}
    IN  /\ c.pc = "check"
        /\ Step(k, "check",
                IF pending = {} THEN Settle(c, Returned(<<>>))
                ELSE [c EXCEPT !.pc = "reads", !.files = mdFiles, !.pending = pending])
        /\ UNCHANGED <<impl, fs, now>>

\* one of the awaited readFile calls of list resolves or rejects; Promise.all
\* rejects with the first rejection and resolves when every read has
ReadListed(k, name) ==
    LET c == last.calls[k]
        id == parseRecordFilename(name)
        path == getRecordPath(ConcDir, id)
        records == Spread(c.records, Obj1(name, decode(fs, path, id)))
        found == FilterSeq(c.files, DOMAIN records)
    IN  /\ c.pc = "reads"
        /\ name \in c.pending
        /\ Step(k, "read",
                IF ~existsSync(fs, path) THEN Settle(c, Thrown("ENOENT"))
                ELSE IF c.pending = {name}
                THEN Settle([c EXCEPT !.pending = {}, !.records = records],
                            Returned([j \in 1..Len(found) |-> records[found[j]]]))
                ELSE [c EXCEPT !.pending = @ \ {name}, !.records = records])
        /\ UNCHANGED <<impl, fs, now>>

InitConc ==
    /\ impl = "vault"
    /\ fs \in StartTrees
    /\ now = 1
    /\ last = [op |-> "concurrent", calls |-> <<Idle, Idle>>, start |-> fs, log |-> <<>>]

NextConc ==
    \E k \in {1, 2} :
        \/ \E id \in {IdA, IdB} : BeginGet(k, id)
        \/ \E id \in {IdA, IdB} : \E updates \in ConcUpdateInputs : BeginUpdate(k, id, updates)
        \/ \E id \in {IdA, IdB} : BeginDelete(k, id)
        \/ \E record \in ConcCreateInputs : \E random \in RandomSuffixes :
              BeginCreate(k, record, random)
        \/ BeginList(k)
        \/ ReadFile(k)
        \/ OpenFile(k)
        \/ WriteFile(k)
        \/ Unlink(k)
        \/ Readdir(k)
        \/ CheckFiles(k)
        \/ \E name \in last.calls[k].pending : ReadListed(k, name)

SpecConc == InitConc /\ [][NextConc]_vars

----------------------------------------------------------------------------
(* Vocabulary of the properties *)

Ok(call) == call.result.kind = "value"
Failed(call) == call.result.kind = "error"

\* the directory of the table a call addressed
DirOf(call) == TableDir(impl, call.table)

\* the header fields of a record or of an input: everything but id and content
HeaderFields(obj) == (DOMAIN obj) \ {"id", "content"}

\* schema fields that must be supplied: required and without a default
RequiredFields(schema) ==
    {f \in DOMAIN schema :
        /\ Has(schema[f], "required") /\ schema[f].required
        /\ ~Has(schema[f], "default")}

DefaultedFields(schema) == {f \in DOMAIN schema : Has(schema[f], "default")}

\* every file of the tree except one is what it was
SameExcept(before, after, path) ==
    /\ DOMAIN after = DOMAIN before
    /\ \A dir \in DOMAIN before :
          /\ (DOMAIN after[dir]) \ {path.name} = (DOMAIN before[dir]) \ {path.name}
          /\ dir # path.dir => DOMAIN after[dir] = DOMAIN before[dir]
          /\ \A name \in DOMAIN before[dir] :
                (dir # path.dir \/ name # path.name)
                    => name \in DOMAIN after[dir] /\ after[dir][name] = before[dir][name]

----------------------------------------------------------------------------
(* C1..C10 *)

\* C1: after update(id, p) on an existing record, get(id) returns a record in
\* which every header field named in p has p's value and every other header
\* field still has the value it had before the update.
C1_UpdateKeepsOtherFields ==
    [][(last'.op = "update" /\ Ok(last'))
        => LET before == get(fs, DirOf(last'), last'.id)
               after == get(fs', DirOf(last'), last'.id)
           IN  /\ after # null
               /\ \A k \in HeaderFields(last'.input) :
                     Has(after, k) /\ after[k] = last'.input[k]
               /\ \A k \in HeaderFields(before) \ HeaderFields(last'.input) :
                     Has(after, k) /\ after[k] = before[k]]_vars

\* C2: update(id, p) on an id that has no record file fails with a not-found
\* error and leaves every directory and every file exactly as it was.
C2_UpdateMissingFails ==
    [][(last'.op = "update" /\ ~exists(fs, DirOf(last'), last'.id))
        => /\ Failed(last')
           /\ last'.result.error = "Record not found"
           /\ fs' = fs]_vars

\* C2 witness: an update was refused while the vault held a record file
C2_Witness ==
    /\ last.op = "update" /\ Failed(last)
    /\ FileCount(fs, DOMAIN fs) > 0

\* C3: a create whose input misses required schema fields (without default)
\* returns a validation error that lists exactly the missing fields, and
\* writes no file.
C3_CreateValidatesRequired ==
    [][(last'.op = "create"
        /\ RequiredFields(Schema(last'.table)) \ DOMAIN last'.input # {})
        => /\ Failed(last')
           /\ last'.result.error =
                 [name |-> "ValidationError",
                  fields |-> RequiredFields(Schema(last'.table)) \ DOMAIN last'.input]
           /\ fs' = fs]_vars

\* C4: create applies schema defaults: a field with a declared default that
\* the input leaves out carries the default in the returned record and in the
\* record get reads back; a supplied value is never replaced by the default.
C4_CreateAppliesDefaults ==
    (last.op = "create" /\ Ok(last))
        => LET returned == last.result.value
               stored == get(fs, DirOf(last), last.id)
           IN  \A f \in DefaultedFields(Schema(last.table)) :
                  LET expected == IF Has(last.input, f) THEN last.input[f]
                                  ELSE Schema(last.table)[f].default
                  IN  /\ Has(returned, f) /\ returned[f] = expected
                      /\ stored # null /\ Has(stored, f) /\ stored[f] = expected

\* the records of a table, whatever the order: one per record file
RecordsOf(tree, dir) == {get(tree, dir, parseRecordFilename(name)) : name \in DOMAIN tree[dir]}

\* a sequence without repetition
Distinct(seq) == \A i, j \in 1..Len(seq) : i # j => seq[i] # seq[j]

\* C5: list({where}) returns exactly the records of the table for which every
\* key of where equals the record's value for that key (one matching record:
\* only that record; no matching record: the empty sequence).
C5_ListWhereExact ==
    (last.op = "list" /\ Ok(last) /\ DOMAIN last.input = {"where"})
        => /\ Range(last.result.value) =
                 {r \in RecordsOf(fs, DirOf(last)) :
                     \A key \in DOMAIN last.input.where :
                        Has(r, key) /\ r[key] = last.input.where[key]}
           /\ Distinct(last.result.value)

\* the filtered records in directory order, the arrangements of them that the
\* requested order allows, and the page of an arrangement
Filtered(all, query) ==
    IF Has(query, "where")
    THEN FilterSeq(all, {r \in Range(all) :
            \A key \in DOMAIN query.where : Has(r, key) /\ r[key] = query.where[key]})
    ELSE all

InOrder(seq, query) ==
    \A i, j \in 1..Len(seq) :
        (i < j /\ Has(seq[i], query.orderBy) /\ Has(seq[j], query.orderBy))
            => IF Has(query, "order") /\ query.order = "desc"
               THEN seq[i][query.orderBy] >= seq[j][query.orderBy]
               ELSE seq[i][query.orderBy] <= seq[j][query.orderBy]

Arrangements(filtered, query) ==
    IF Has(query, "orderBy")
    THEN {seq \in {[k \in 1..Len(filtered) |-> filtered[p[k]]] : p \in Perms(1..Len(filtered))} :
            InOrder(seq, query)}
    ELSE {filtered}

\* positions o .. o+l-1 (counted from 0): skip o, then keep at most l
Page(seq, query) ==
    LET o == IF Has(query, "offset") THEN query.offset ELSE 0
        rest == SubSeq(seq, o + 1, Len(seq))
    IN  IF Has(query, "limit") /\ query.limit < Len(rest)
        THEN SubSeq(rest, 1, query.limit) ELSE rest

\* C6: list / find apply filter, sort, offset, limit in that order: the result
\* is the elements at positions o .. o+l-1 of the filtered, sorted sequence.
C6_FilterSortOffsetLimit ==
    (last.op \in {"list", "find"} /\ Ok(last) /\ impl # "vault")
        => \E seq \in Arrangements(Filtered(list(fs, DirOf(last), last.readdir), last.input),
                                   last.input) :
              last.result.value = Page(seq, last.input)

\* C7: delete(id) returns true exactly when a file existed and removes it;
\* afterwards get(id) is null and exists(id) is false; on an absent id it
\* returns false and changes nothing; a second delete of the same id returns
\* false and does not throw.
C7_DeleteIdempotent ==
    [][(last'.op = "delete")
        => LET dir == DirOf(last')
               path == getRecordPath(dir, last'.id)
               had == existsSync(fs, path)
           IN  /\ Ok(last')
               /\ last'.result.value = had
               /\ get(fs', dir, last'.id) = null
               /\ ~exists(fs', dir, last'.id)
               /\ SameExcept(fs, fs', path)
               /\ ~had => fs' = fs
               /\ (last.op = "delete" /\ last.table = last'.table /\ last.id = last'.id)
                    => last'.result.value = FALSE]_vars

\* C7 witness: the second of two deletes of the same minted id has answered
C7_Witness ==
    /\ last.op = "delete" /\ Ok(last) /\ last.result.value = FALSE
    /\ last.id # Nonexistent

\* C8: get(id) on an id with no record file returns null without an error and
\* leaves the file tree unchanged; on an existing record it returns that
\* record: the header fields of its file, its id and its body.
C8_GetNullOrRecord ==
    [][(last'.op = "get")
        => LET path == getRecordPath(DirOf(last'), last'.id)
               got == last'.result.value
           IN  /\ Ok(last')
               /\ fs' = fs
               /\ IF ~existsSync(fs, path) THEN got = null
                  ELSE LET text == fs[path.dir][path.name] IN
                       /\ DOMAIN got = (DOMAIN text.data) \cup {"id", "content"}
                       /\ got.id = last'.id
                       /\ got.content = text.body
                       /\ \A k \in (DOMAIN text.data) \ {"id"} : got[k] = text.data[k]]_vars

\* C8 witness: a get answered null while the vault held a record file
C8_Witness ==
    /\ last.op = "get" /\ last.result.value = null
    /\ FileCount(fs, DOMAIN fs) > 0

\* C9: in every reachable state, for every table and every directory order,
\* the ids of the records list() returns are pairwise distinct.
C9_ListIdsDistinct ==
    \A dir \in DOMAIN fs : \A files \in readdir(fs, dir) :
        LET records == list(fs, dir, files)
        IN  \A i, j \in 1..Len(records) : i # j => records[i].id # records[j].id

\* C9 witness: a table lists two records
C9_Witness ==
    \E dir \in DOMAIN fs : \E files \in readdir(fs, dir) : Len(list(fs, dir, files)) >= 2

\* C10: a successful create writes exactly one new file, in the directory of
\* its table and named after the minted id; no other file of any table is
\* created, modified or removed.
C10_CreateWritesOneNewFile ==
    [][(last'.op = "create" /\ Ok(last'))
        => LET path == getRecordPath(DirOf(last'), last'.result.value.id)
           IN  /\ ~existsSync(fs, path)
               /\ existsSync(fs', path)
               /\ SameExcept(fs, fs', path)]_vars

----------------------------------------------------------------------------
(* C11..C20 *)

\* C11: create never overwrites an existing id: a successful create leaves
\* every record file that the table held before with the data it had, and the
\* table holds one record more than before (also within one millisecond).
C11_CreateNeverOverwrites ==
    [][(last'.op = "create" /\ Ok(last'))
        => LET dir == DirOf(last')
           IN  /\ \A name \in DOMAIN fs[dir] :
                     name \in DOMAIN fs'[dir] /\ fs'[dir][name] = fs[dir][name]
               /\ Cardinality(DOMAIN fs'[dir]) = Cardinality(DOMAIN fs[dir]) + 1]_vars

\* C12: a record's id is immutable: whatever the partial fields of an update
\* hold (an id field of their own included), the record update returns and the
\* record a later get or list reads from that file carry the id the update
\* was addressed to, which is the id the record was created with.
C12_IdImmutable ==
    [][(last'.op = "update" /\ Ok(last'))
        => LET dir == DirOf(last')
               name == getRecordPath(dir, last'.id).name
           IN  /\ last'.result.value.id = last'.id
               /\ get(fs', dir, last'.id) # null
               /\ get(fs', dir, last'.id).id = last'.id
               /\ \A files \in readdir(fs', dir) :
                     \A k \in 1..Len(files) :
                        files[k] = name => list(fs', dir, files)[k].id = last'.id]_vars

\* C13: round trip: the record get reads back from the file a create wrote
\* equals the record that create returned (functions compare by their keys
\* and values, so the order of the header fields does not count).
C13_RoundTrip ==
    (last.op = "create" /\ Ok(last))
        => get(fs, DirOf(last), last.result.value.id) = last.result.value

\* C14: fields the schema does not declare are preserved: a field handed to
\* create that the schema does not name is in the record create returns and
\* in the record a later get reads from the file, with the value supplied.
C14_UnknownFieldsPreserved ==
    (last.op = "create" /\ Ok(last))
        => LET returned == last.result.value
               stored == get(fs, DirOf(last), last.id)
           IN  \A f \in HeaderFields(last.input) \ DOMAIN Schema(last.table) :
                  /\ Has(returned, f) /\ returned[f] = last.input[f]
                  /\ stored # null /\ Has(stored, f) /\ stored[f] = last.input[f]

\* the tables a configuration composes, <<i, k>> = table k of plugin i, and
\* the mirror name `${pluginId}_${tableName}` of each
ComposedTables(plugins) ==
    UNION {{<<i, k>> : k \in 1..Len(plugins[i].tables)} : i \in 1..Len(plugins)}

MirrorName(plugins, ik) ==
    getSQLiteTableName(plugins[ik[1]].id, plugins[ik[1]].tables[ik[2]].name)

\* C15: constructing a vault from a configuration in which two tables have
\* the same mirror name fails with an error, and no directory has been
\* created when it fails.
C15_DuplicateMirrorNameFails ==
    [][(/\ last'.op = "defineVault"
        /\ \E x, y \in ComposedTables(last'.input.plugins) :
              x # y /\ MirrorName(last'.input.plugins, x) = MirrorName(last'.input.plugins, y))
        => /\ Failed(last')
           /\ fs' = fs]_vars

\* the names a configuration composes: plugin ids and table names
ComposedNames(plugins) ==
    {plugins[i].id : i \in 1..Len(plugins)}
        \cup {plugins[ik[1]].tables[ik[2]].name : ik \in ComposedTables(plugins)}

\* C16: every plugin id and every table name composed into a vault matches
\* ^[a-z][a-z0-9_]*$: constructing a vault from a configuration with a name
\* that does not match fails, whether or not the plugins went through
\* definePlugin.
C16_NamesValidated ==
    [][(/\ last'.op = "defineVault"
        /\ \E name \in ComposedNames(last'.input.plugins) : ~isValidName(name))
        => Failed(last')]_vars

\* the table objects a nested vault exposes, as <<plugin key, table key>>
ExposedTables(vault) ==
    UNION {{<<p, n>> : n \in {m \in DOMAIN vault[p] : vault[p][m].kind = "table"}} :
             p \in (DOMAIN vault) \ CoreOps}

\* C17: in the plugin drafts, a table that declares a custom method named
\* like one of the seven built-in operations makes construction fail; in
\* every vault that is constructed, each of the seven names of each table is
\* bound to the built-in operation of that name.
C17_CustomMethodsDoNotShadow ==
    [][(last'.op = "defineVault" /\ impl \in {"vault", "vault_clean"})
        => /\ (\E ik \in ComposedTables(last'.input.plugins) :
                  last'.input.plugins[ik[1]].tables[ik[2]].methods \cap BuiltinOps # {})
                => Failed(last')
           /\ Ok(last')
                => \A pn \in ExposedTables(last'.result.value) :
                      \A op \in BuiltinOps :
                         LET bound == last'.result.value[pn[1]][pn[2]].methods[op]
                         IN  bound.kind = "builtin" /\ bound.op = op]_vars

\* the directory of a composed table, and the table as <<plugin id, name>>
ComposedTable(plugins, ik) == <<plugins[ik[1]].id, plugins[ik[1]].tables[ik[2]].name>>

ComposedDir(draft, plugins, ik) == TableDir(draft, ComposedTable(plugins, ik))

\* C18: in every constructed vault no two distinct tables of the
\* configuration share a directory, so a record created through one table
\* is not among the records list() of another table returns.
C18_TableDirectoriesInjective ==
    [][(last'.op = "defineVault" /\ Ok(last'))
        => LET plugins == last'.input.plugins
               tree == mkdir(fs', {ComposedDir(impl, plugins, ik) : ik \in ComposedTables(plugins)})
           IN  \A x, y \in ComposedTables(plugins) :
                  x # y =>
                     /\ ComposedDir(impl, plugins, x) # ComposedDir(impl, plugins, y)
                     /\ LET id == generateRecordId(IdPrefix(impl, ComposedTable(plugins, x)),
                                                    now, "k3")
                            done == create_clean(tree, ComposedDir(impl, plugins, x),
                                                 [title |-> "hi"], id)
                        IN  \A files \in readdir(done.tree, ComposedDir(impl, plugins, y)) :
                               list(done.tree, ComposedDir(impl, plugins, y), files) = <<>>]_vars

\* C19: the vault of the plugin drafts exposes, for every plugin p of the
\* configuration, vault[p.id][t] as the table object of every table t of p
\* and vault[p.id][m] as every plugin-level method m of p; no such entry is
\* replaced by a vault-level operation, by another plugin, or by a
\* plugin-level method named like a table.
C19_VaultExposesEveryPlugin ==
    [][(last'.op = "defineVault" /\ Ok(last') /\ impl \in {"vault", "vault_clean"})
        => LET plugins == last'.input.plugins
               vault == last'.result.value
           IN  \A i \in 1..Len(plugins) :
                  /\ plugins[i].id \notin CoreOps
                  /\ Has(vault, plugins[i].id)
                  /\ \A k \in 1..Len(plugins[i].tables) :
                        LET name == plugins[i].tables[k].name
                        IN  /\ Has(vault[plugins[i].id], name)
                            /\ vault[plugins[i].id][name].kind = "table"
                            /\ vault[plugins[i].id][name].owner = <<i, k>>
                  /\ \A m \in plugins[i].methods :
                        /\ Has(vault[plugins[i].id], m)
                        /\ vault[plugins[i].id][m].kind = "pluginMethod"
                        /\ vault[plugins[i].id][m].owner = i]_vars


\* the issues the method's validator returns for the input of the last
\* invocation; empty when it accepts or when the method has no validator
IssuesOf(call) ==
    LET defs == IF call.level = "table" THEN TableMethodDefs ELSE PluginMethodDefs
        schema == defs[call.method].input
    IN  IF Has(schema, "standard") /\ Has(schema.standard.validate[call.input], "issues")
        THEN schema.standard.validate[call.input].issues
        ELSE <<>>

\* the text holds the words in this order, next to each other
Contains(text, words) ==
    \E at \in 0..(Len(text) - Len(words)) :
        \A k \in 1..Len(words) : text[at + k] = words[k]

\* an issue as a reader finds it: the keys of its path joined by dots, then
\* its message; the message alone when the validator gave no path
Carried(issue) ==
    IF issue.path = <<>> THEN <<issue.message>>
    ELSE <<IF Has(issue.path[1], "key") THEN issue.path[1].key ELSE issue.path[1].plain>>
         \o (IF Len(issue.path) = 2
             THEN <<".", IF Has(issue.path[2], "key") THEN issue.path[2].key
                         ELSE issue.path[2].plain>>
             ELSE <<>>)
         \o <<": ", issue.message>>

\* C20: when a table-level or plugin-level action is invoked with an input
\* its validator rejects, the handler is not invoked, no file is changed, and
\* the error raised carries every issue the validator returned, each with its
\* field path.
C20_RejectedInputNeverReachesHandler ==
    [][(last'.op = "invoke" /\ IssuesOf(last') # <<>>) =>
          /\ Failed(last')
          /\ last'.handled = <<>>
          /\ fs' = fs
          /\ \A k \in 1..Len(IssuesOf(last')) :
                Contains(last'.result.error, Carried(IssuesOf(last')[k]))]_vars

\* a plugin-level mutation was refused with two issues, one of them nested
C20_Witness ==
    /\ last.op = "invoke"
    /\ last.level = "plugin"
    /\ last.method = "addPost"
    /\ Len(IssuesOf(last)) = 2
    /\ Failed(last)
    /\ last.handled = <<>>


\* the value the method's validator gives for the input of the call
ValidatedOf(call) ==
    (IF call.level = "table" THEN TableMethodDefs
     ELSE PluginMethodDefs)[call.method].input.standard.validate[call.input].value

\* the method of the call declares a validator, and it accepts the input
Accepted(call) ==
    /\ call.op = "invoke"
    /\ Has((IF call.level = "table" THEN TableMethodDefs
            ELSE PluginMethodDefs)[call.method].input, "standard")
    /\ IssuesOf(call) = <<>>

\* the context is that of the call's owner: for a table-level action the
\* built-in operations of the table, each on the table's directory; for a
\* plugin-level action every table of the plugin, each on its own directory
OwnersContext(call, context) ==
    IF call.level = "table"
    THEN /\ DOMAIN context = BuiltinOps
         /\ \A op \in BuiltinOps : context[op].tablePath = TableDir("vault", call.table)
    ELSE \A t \in Tables :
            /\ t[2] \in DOMAIN context
            /\ context[t[2]].kind = "table"
            /\ context[t[2]].tablePath = TableDir("vault", t)

\* C21: an invocation of a declared action validates the input first, and
\* calls the handler exactly once, with the validator's output value and
\* with the context of the action's owner.
C21_HandlerGetsValidatedInputAndOwnersContext ==
    [][Accepted(last') =>
          /\ Len(last'.handled) = 1
          /\ last'.handled[1].input = ValidatedOf(last')
          /\ OwnersContext(last', last'.handled[1].context)]_vars

\* a plugin-level mutation ran on an input the validator completed
C21_Witness ==
    /\ Accepted(last)
    /\ last.level = "plugin"
    /\ last.method = "addPost"
    /\ ValidatedOf(last) # last.input
    /\ Len(last.handled) = 1
    /\ Ok(last)


\* the table object is one of the tables plugin i declares: it lies on the
\* directory of one of them
DeclaredBy(draft, plugins, i, table) ==
    \E k \in 1..Len(plugins[i].tables) :
        table.tablePath = ComposedDir(IF draft = "vault_proxy" THEN "vault_adapter" ELSE draft,
                                      plugins, <<i, k>>)

\* C22: the context handed to a plugin's custom methods exposes only that
\* plugin's own tables, and its set of keys is the one it was handed with.
C22_ContextExposesOwnTablesOnly ==
    [][(last'.op = "defineVault" /\ Ok(last')) =>
          \A i \in DOMAIN last'.contexts :
             LET c == last'.contexts[i] IN
             /\ \A key \in DOMAIN c.context :
                   c.context[key].kind = "table"
                      => DeclaredBy(last'.draft, last'.input.plugins, i, c.context[key])
             /\ DOMAIN c.context = c.handedKeys]_vars


RECURSIVE SumOf(_)
SumOf(f) ==
    IF DOMAIN f = {} THEN 0
    ELSE LET k == CHOOSE x \in DOMAIN f : TRUE
         IN  f[k] + SumOf([x \in (DOMAIN f) \ {k} |-> f[x]])

\* C23: stats() has an entry "{pluginId}.{tableName}" for every composed
\* table, equal to the number of records of that table, and totalRecords is
\* the sum of the entries.
C23_StatsCountsEveryTable ==
    last.op = "stats" =>
        LET plugins == last.input.plugins
            report == last.result.value
        IN  /\ \A ik \in ComposedTables(plugins) :
                  LET t == ComposedTable(plugins, ik)
                      key == t[1] \o <<".">> \o t[2]
                  IN  /\ key \in DOMAIN report.tableStats
                      /\ report.tableStats[key] = Cardinality(DOMAIN fs[TableDir(impl, t)])
            /\ report.totalRecords = SumOf(report.tableStats)


\* what list(params) of the running draft may return in this state
ListOutcomes(tree, dir, files, params) ==
    IF impl = "vault" THEN {list(tree, dir, files)} ELSE list_clean(tree, dir, files, params)

\* C24: count(where) is the number of records list(where) returns in the same
\* state; without a filter it is the number of record files of the table.
C24_CountIsLengthOfList ==
    (last.op = "count" /\ impl \in {"vault", "vault_clean"})
        => /\ \A files \in readdir(fs, DirOf(last)) :
                 \A results \in ListOutcomes(fs, DirOf(last), files, last.input) :
                    last.result.value = Len(results)
           /\ ~Has(last.input, "where")
                 => last.result.value =
                       Cardinality({f \in DOMAIN fs[DirOf(last)] : isMarkdownFile(f)})

\* a filtered count left out one of two records
C24_Witness ==
    /\ last.op = "count"
    /\ impl = "vault_clean"
    /\ Has(last.input, "where")
    /\ last.result.value = 1
    /\ Cardinality(DOMAIN fs[DirOf(last)]) = 2


\* C25: with hooks declared, a write persists what beforeWrite made of the
\* record, and a read returns the decoded record transformed by afterRead.
C25_HooksRunAroundWritesAndReads ==
    /\ (last.op = "create" /\ Ok(last))
          => LET file == readFile(fs, getRecordPath(DirOf(last), last.id))
                 given == Spread(Omit(last.input, {"content"}), Obj1("id", last.id))
             IN  file.data = beforeWrite("reddit", given, now)
    /\ (last.op = "get" /\ Ok(last) /\ last.result.value # null)
          => last.result.value = afterRead("reddit", get(fs, DirOf(last), last.id))

\* C26: the record a hook returns has the id of the record it received.
C26_HooksKeepTheId ==
    last.op = "hook"
        => /\ Has(last.result.value, "id") = Has(last.input.record, "id")
           /\ Has(last.input.record, "id") => last.result.value.id = last.input.record.id


\* both calls have returned or thrown
BothDone == last.op = "concurrent" /\ \A k \in {1, 2} : last.calls[k].pc = "done"

\* a call run alone on a tree: the tree it leaves and what it returns
Alone(call, tree) ==
    IF call.op = "get" THEN [tree |-> tree, result |-> Returned(get(tree, ConcDir, call.id))]
    ELSE IF call.op = "update" THEN update(tree, ConcDir, call.id, call.input)
    ELSE IF call.op = "delete" THEN delete(tree, ConcDir, call.id)
    ELSE create(tree, ConcDir, Schema(ConcTable), call.input, call.id)

\* the two calls one after the other, first a then b
InTurn(a, b) ==
    LET first == Alone(last.calls[a], last.start)
        second == Alone(last.calls[b], first.tree)
    IN  /\ fs = second.tree
        /\ last.calls[a].result = first.result
        /\ last.calls[b].result = second.result

\* the steps of the two calls alternated
Interleaved ==
    \E i, j \in 1..Len(last.log) :
        /\ i + 1 < j
        /\ last.log[i][1] = last.log[j][1]
        /\ last.log[i + 1][1] # last.log[i][1]

\* C27: two operations (create, update, delete, get) on different ids leave,
\* under every interleaving of their file-system steps, the results and the
\* tree of running them one after the other in either order.
C27_DifferentIdsAreIndependent ==
    (/\ BothDone
     /\ \A k \in {1, 2} : last.calls[k].op \in {"create", "update", "delete", "get"}
     /\ last.calls[1].id # last.calls[2].id)
        => InTurn(1, 2) /\ InTurn(2, 1)

\* an update of one record and a delete of another, both on existing
\* records, have run with their steps alternated
C27_Witness ==
    /\ BothDone
    /\ last.calls[1].op = "update" /\ last.calls[1].id = IdA /\ Ok(last.calls[1])
    /\ last.calls[2].op = "delete" /\ last.calls[2].id = IdB
    /\ last.calls[2].result = Returned(TRUE)
    /\ Interleaved

\* the call whose write step came last
LastWriter ==
    LET writes == {i \in 1..Len(last.log) : last.log[i][2] = "write"}
    IN  last.log[CHOOSE i \in writes : \A j \in writes : j <= i][1]

\* C28: two concurrent updates of one existing id leave the file with
\* exactly the content that the update whose write came last wrote, never a
\* mixture of the two.
C28_LastWriterWins ==
    (/\ BothDone
     /\ \A k \in {1, 2} : last.calls[k].op = "update" /\ Ok(last.calls[k])
     /\ last.calls[1].id = last.calls[2].id)
        => readFile(fs, getRecordPath(ConcDir, last.calls[1].id)) = last.calls[LastWriter].text

\* the ids of the record files of a tree
IdsIn(tree) == {parseRecordFilename(name) : name \in DOMAIN tree[ConcDir]}

\* C29: a list() concurrent with a create or a delete on the table completes
\* with a result that holds every record present throughout; it does not
\* fail because a file disappeared under it.
C29_ListSurvivesConcurrentWrites ==
    \A k \in {1, 2} :
        (/\ BothDone
         /\ last.calls[k].op = "list"
         /\ last.calls[3 - k].op \in {"create", "delete"})
            => /\ Ok(last.calls[k])
               /\ IdsIn(last.start) \cap IdsIn(fs)
                     \subseteq {r.id : r \in Range(last.calls[k].result.value)}


\* the lines of a text
RECURSIVE Lines(_)
Lines(text) ==
    IF \A k \in 1..Len(text) : text[k] # "\n" THEN <<text>>
    ELSE LET at == CHOOSE k \in 1..Len(text) :
                      text[k] = "\n" /\ \A j \in 1..(k - 1) : text[j] # "\n"
         IN  <<SubSeq(text, 1, at - 1)>> \o Lines(SubSeq(text, at + 1, Len(text)))

\* the mirror names of a configuration
MirrorNames(plugins) == {MirrorName(plugins, ik) : ik \in ComposedTables(plugins)}

\* C30: export('sql') emits exactly one CREATE TABLE statement per mirror
\* name of the configuration, with the columns id, content and created_at,
\* and no INSERT line, whatever records the tables hold.
C30_SqlExportIsSchemaOnly ==
    (last.op = "export" /\ Ok(last))
        => LET lines == Lines(last.result.value)
               creates == {n \in 1..Len(lines) :
                             lines[n] # <<>> /\ lines[n][1] = "CREATE TABLE IF NOT EXISTS "}
           IN  /\ \A name \in MirrorNames(last.input.plugins) :
                     Cardinality({n \in creates : lines[n] = <<"CREATE TABLE IF NOT EXISTS ">>
                                                      \o name \o <<" (">>}) = 1
               /\ Cardinality(creates) = Cardinality(MirrorNames(last.input.plugins))
               /\ \A n \in creates :
                     {lines[n + 1], lines[n + 2], lines[n + 3]} =
                        {<<"  id TEXT PRIMARY KEY,">>, <<"  content TEXT,">>,
                         <<"  created_at DATETIME DEFAULT CURRENT_TIMESTAMP">>}
               /\ \A n \in 1..Len(lines) :
                     lines[n] = <<>> \/ lines[n][1] \notin {"INSERT INTO ", "-- INSERT INTO "}

\* C31: when orderBy is given and every listed record has a value for that
\* key, list / find return a permutation of the filtered records in the order
\* of that key (ascending unless order is 'desc'), also when the same query
\* has a where filter.
C31_SortedPermutationOfFiltered ==
    LET all == list(fs, DirOf(last), last.readdir) IN
    (/\ last.op \in {"list", "find"} /\ Ok(last) /\ impl # "vault"
     /\ Has(last.input, "orderBy")
     /\ ~Has(last.input, "limit") /\ ~Has(last.input, "offset")
     /\ \A r \in Range(all) : Has(r, last.input.orderBy))
        => /\ last.result.value \in
                 {[k \in 1..Len(Filtered(all, last.input)) |-> Filtered(all, last.input)[p[k]]] :
                     p \in Perms(1..Len(Filtered(all, last.input)))}
           /\ InOrder(last.result.value, last.input)

\* C32: update leaves the free-form body unchanged unless the caller supplies
\* one: after update(id, p) without a content key, get(id).content is the body
\* the record had before; with a content key, get(id).content is p.content.
C32_UpdateKeepsOrSetsBody ==
    [][(last'.op = "update" /\ Ok(last'))
        => LET dir == DirOf(last')
               before == get(fs, dir, last'.id)
               after == get(fs', dir, last'.id)
           IN  /\ after # null
               /\ after.content = IF Has(last'.input, "content") THEN last'.input.content
                                  ELSE before.content]_vars

\* C33: a deleted record stays deleted: once delete(id) has returned true no
\* file for id exists in any later state, even when an update(id, p) that
\* started before the delete performs its write after it.
C33_DeletedStaysDeleted ==
    \A k \in {1, 2} :
        LET c == last.calls[k] IN
        (c.op = "delete" /\ c.pc = "done" /\ Ok(c) /\ c.result.value)
            => ~existsSync(fs, getRecordPath(ConcDir, c.id))

\* C34: two delete(id) calls for the same existing id that run concurrently:
\* in every interleaving of their existence tests and unlinks exactly one
\* returns true, the other returns false, and neither fails with an error.
C34_ConcurrentDeletesOneWins ==
    LET a == last.calls[1]
        b == last.calls[2]
    IN  (/\ a.op = "delete" /\ b.op = "delete" /\ a.id = b.id
         /\ a.pc = "done" /\ b.pc = "done"
         /\ existsSync(last.start, getRecordPath(ConcDir, a.id)))
            => /\ Ok(a) /\ Ok(b)
               /\ a.result.value # b.result.value

----------------------------------------------------------------------------
(* A vault just constructed over an empty disk, and the first creates on    *)
(* it.  vault.ts makes its directories with mkdirSync; the other drafts     *)
(* call the promise-returning mkdir and do not await it, so a directory may *)
(* be made after defineVault has returned.                                  *)

\* the documented configuration: one plugin with the tables of Tables
FreshConfig ==
    <<Plugin(<<"reddit">>, <<Table(<<"posts">>, {}), Table(<<"comments">>, {})>>, {})>>

\* the directories defineVault asks for
requested(i) ==
    (IF i \in {"vault", "vault_clean"} THEN defineVault(i, VaultPath, FreshConfig)
     ELSE IF i = "vault_final" THEN defineVault_final(VaultPath, FreshConfig)
     ELSE defineVault_adapter(VaultPath, FreshConfig)).mkdirs

\* a mkdir that was not awaited completes
MkdirCompletes(dir) ==
    /\ last.op # "start"
    /\ dir \in requested(impl) \ DOMAIN fs
    /\ fs' = mkdir(fs, {dir})
    /\ UNCHANGED <<impl, now, last>>

\* create(record) on the new vault: writeFile rejects with ENOENT when the
\* directory of the table is not there
CreateFresh(t, record, random) ==
    /\ last.op # "start"
    /\ last.op = "defineVault" => last.result.kind = "value"
    /\ IF existsSyncDir(fs, TableDir(impl, t)) THEN Create(t, record, random)
       ELSE /\ last' = Call("create", t, generateRecordId(IdPrefix(impl, t), now, random),
                            record, <<>>, Thrown("ENOENT"))
            /\ UNCHANGED <<impl, fs, now>>

InitFresh == InitCompose

NextFresh ==
    \/ DefineVault(FreshConfig, FALSE)
    \/ \E dir \in requested(impl) : MkdirCompletes(dir)
    \/ \E t \in Tables : \E random \in RandomSuffixes : CreateFresh(t, [title |-> "hi"], random)

SpecFresh == InitFresh /\ [][NextFresh]_vars

\* C35: when defineVault returns, the vault root directory and the directory
\* of every configured table exist on disk, so a create issued after
\* construction never fails because its table directory is still missing.
C35_DirectoriesExistOnReturn ==
    /\ (last.op = "defineVault" /\ Ok(last))
          => /\ existsSyncDir(fs, VaultPath)
             /\ \A t \in Tables : existsSyncDir(fs, TableDir(impl, t))
    /\ last.op = "create" => Ok(last)

----------------------------------------------------------------------------
(* The vault-wide operations of vault.ts (createCoreVaultMethods) next to   *)
(* the reading operations of a table, on the vault of the documented        *)
(* configuration.  console.log is the only effect of sync, refresh and      *)
(* query; the lines printed are kept in the call.                           *)

\* async sync(): one line, then one line per table of the configuration
RECURSIVE syncLines(_, _, _)
syncLines(plugins, i, k) ==
    IF i > Len(plugins) THEN <<>>
    ELSE IF k > Len(plugins[i].tables) THEN syncLines(plugins, i + 1, 1)
    ELSE <<<<"  Syncing table: ">> \o getSQLiteTableName(plugins[i].id, plugins[i].tables[k].name)>>
            \o syncLines(plugins, i, k + 1)

sync(plugins) == <<<<"Syncing vault to SQLite...">>>> \o syncLines(plugins, 1, 1)

\* async refresh(): one line, then one line per plugin
refresh(vaultPath, plugins) ==
    <<<<"Refreshing vault from disk...">>>>
        \o [i \in 1..Len(plugins) |->
               <<"  Refreshing plugin: ">> \o plugins[i].id \o <<" from ">>
                   \o getPluginPath(vaultPath, plugins[i].id)]

\* the table objects export and stats reach: vault[plugin.id][tableName]
\* with a list function
listable(plugins, vault) ==
    {ik \in UNION {{<<i, k>> : k \in 1..Len(plugins[i].tables)} : i \in 1..Len(plugins)} :
        LET pluginObj == vault[plugins[ik[1]].id]
            tableName == plugins[ik[1]].tables[ik[2]].name
        IN  /\ Has(pluginObj, tableName)
            /\ pluginObj[tableName].kind = "table"
            /\ Has(pluginObj[tableName].methods, "list")}

\* export('json'): result[plugin.id][tableName] = await table.list(); the
\* value is the object JSON.stringify is given.  orders: the order readdir
\* gave for each table directory.
export_json(plugins, vault, tree, orders) ==
    [json |->
        [id \in {plugins[i].id : i \in 1..Len(plugins)} |->
            [tableName \in {plugins[ik[1]].tables[ik[2]].name :
                               ik \in {x \in listable(plugins, vault) : plugins[x[1]].id = id}} |->
                list(tree, vault[id][tableName].tablePath,
                     orders[vault[id][tableName].tablePath])]]]

\* export('markdown'): a heading per plugin, the number of records and the
\* path per table
RECURSIVE markdownLines(_, _, _, _, _, _)
markdownLines(vaultPath, plugins, vault, tree, i, k) ==
    IF i > Len(plugins) THEN <<>>
    ELSE IF k > Len(plugins[i].tables) THEN markdownLines(vaultPath, plugins, vault, tree, i + 1, 1)
    ELSE LET tableName == plugins[i].tables[k].name
             name == IF Has(plugins[i], "name") THEN plugins[i].name ELSE <<"undefined">>
             heading == IF k = 1
                        THEN <<<<"## Plugin: ">> \o name \o <<" (">> \o plugins[i].id \o <<")">>>>
                        ELSE <<>>
             entry == IF <<i, k>> \in listable(plugins, vault)
                      THEN <<<<"### Table: ">> \o tableName \o <<" (">>
                                \o <<tableCount(tree, vault[plugins[i].id][tableName])>>
                                \o <<" records)">>,
                             <<"Path: ">> \o getTablePath(vaultPath, plugins[i].id, tableName)>>
                      ELSE <<>>
         IN  heading \o entry \o markdownLines(vaultPath, plugins, vault, tree, i, k + 1)

export_markdown(vaultPath, plugins, vault, tree) ==
    <<<<"# Vault Export">>>> \o markdownLines(vaultPath, plugins, vault, tree, 1, 1)

\* async export(format)
export(format, vaultPath, plugins, vault, tree, orders) ==
    IF format = "json" THEN export_json(plugins, vault, tree, orders)
    ELSE IF format = "sql" THEN [text |-> export_sql(plugins)]
    ELSE IF format = "markdown" THEN [lines |-> export_markdown(vaultPath, plugins, vault, tree)]
    ELSE [text |-> <<"-- Export format not implemented">>]

\* async query(sql): logs the statement, returns []
query(sql) == <<>>

ExportFormats == {"json", "sql", "markdown", "csv"}

\* a sync that removes the record files it has gone over
Sync_prunes ==
    /\ fs' = [dir \in DOMAIN fs |-> <<>>]
    /\ last' = Spread(Call("sync", <<>>, <<>>, EmptyObj, <<>>, Returned(null)),
                      [logged |-> sync(<<RedditPlugin>>)])
    /\ UNCHANGED <<impl, now>>

Sync ==
    /\ last' = Spread(Call("sync", <<>>, <<>>, EmptyObj, <<>>, Returned(null)),
                      [logged |-> sync(<<RedditPlugin>>)])
    /\ UNCHANGED <<impl, fs, now>>

Refresh ==
    /\ last' = Spread(Call("refresh", <<>>, <<>>, EmptyObj, <<>>, Returned(null)),
                      [logged |-> refresh(VaultPath, <<RedditPlugin>>)])
    /\ UNCHANGED <<impl, fs, now>>

Export(format) ==
    /\ \E orders \in [DOMAIN fs -> UNION {readdir(fs, dir) : dir \in DOMAIN fs}] :
          /\ \A dir \in DOMAIN fs : orders[dir] \in readdir(fs, dir)
          /\ last' = Call("export", <<>>, <<>>, [format |-> format], <<>>,
                          Returned(export(format, VaultPath, <<RedditPlugin>>,
                                          defineVault(impl, VaultPath, <<RedditPlugin>>).result.value,
                                          fs, orders)))
    /\ UNCHANGED <<impl, fs, now>>

Query(sql) ==
    /\ last' = Spread(Call("query", <<>>, <<>>, [sql |-> sql], <<>>, Returned(query(sql))),
                      [logged |-> <<<<"Executing SQL query:">> \o sql>>])
    /\ UNCHANGED <<impl, fs, now>>

InitFrame == InitWith({"vault"})

NextFrame ==
    \/ \E t \in Tables : \E record \in QueryCreateInputs(t) : \E random \in RandomSuffixes :
          Create(t, record, random)
    \/ \E t \in Tables : \E id \in AskedIds(fs, TableDir(impl, t), t, last) : Delete(t, id)
    \/ \E t \in Tables : \E id \in AskedIds(fs, TableDir(impl, t), t, last) : Get(t, id)
    \/ \E t \in Tables : \E id \in AskedIds(fs, TableDir(impl, t), t, last) : Exists(t, id)
    \/ \E t \in Tables : List(t, EmptyObj)
    \/ \E t \in Tables : Count(t, EmptyObj)
    \/ Stats(<<RedditPlugin>>)
    \/ \E format \in ExportFormats : Export(format)
    \/ Sync
    \/ Refresh
    \/ Query(<<"SELECT 1">>)

SpecFrame == InitFrame /\ [][NextFrame]_vars

\* the operations that read or aggregate
ReadOnlyOps == {"get", "list", "count", "exists", "stats", "export", "sync", "refresh", "query"}

\* C36: get, list, count, exists, stats, export, sync, refresh and query
\* never create, modify or delete a record file: the file tree after any of
\* them is the file tree before it; and a sync that follows a sync leaves
\* the state the first one left.
C36_ReadOnlyOperationsKeepTheTree ==
    [][/\ last'.op \in ReadOnlyOps => fs' = fs
       /\ (last.op = "sync" /\ last'.op = "sync") => (fs' = fs /\ last' = last)]_vars

\* export('json') has just returned the records of a table that holds some
C36_Witness ==
    /\ FileCount(fs, DOMAIN fs) > 0
    /\ last.op = "export" /\ last.input.format = "json"
    /\ last.result.value.json[<<"reddit">>][<<"posts">>] # <<>>

----------------------------------------------------------------------------
(* The permission watchers of register-permissions.ts.  impl names the      *)
(* version: "polling" (lines 5-111: setInterval, a module-level toast id    *)
(* set with ??=) or "once" (lines 113-212: one check on registration, a     *)
(* toast id per registration).  A check is awaited: it is started, answers  *)
(* with what the system reports at some moment after its start, and         *)
(* resolves later; the checks of different interval ticks overlap when a    *)
(* check outlasts the interval.  In this specification last holds the       *)
(* watcher: the module-level toast id (a set: empty is undefined), the      *)
(* toasts that are open, the running intervals, the checks, the             *)
(* registrations made and cleaned up, and the step just taken.              *)

MaxRegistrations == 2
MaxChecks == 3
MaxInFlight == 2

Watchers == {"polling", "once"}

Event(kind, reg, answer) == [kind |-> kind, reg |-> reg, answer |-> answer]

Unresolved(w) == {c \in 1..Len(w.checks) : ~w.checks[c].done}

\* toast.dismiss(id): without an id every toast is dismissed
dismiss(open, id) == IF id = {} THEN {} ELSE open \ id

\* services.permissions.*.check() is called for registration reg
startCheck(w, reg) == [w EXCEPT !.checks = Append(@, [reg |-> reg, answer |-> "pending", done |-> FALSE])]

\* registerAccessibilityPermission() / registerMicrophonePermission() on macOS
Register ==
    LET reg == last.registered + 1
        w == [last EXCEPT !.registered = reg, !.event = Event("register", reg, "none")]
    IN  /\ last.registered < MaxRegistrations
        /\ last' = IF impl = "polling" THEN [w EXCEPT !.intervals = @ \cup {reg}]
                   ELSE startCheck(w, reg)
        /\ UNCHANGED <<impl, fs, now>>

\* the interval of a registration fires: the callback starts a check
Poll(reg) ==
    /\ impl = "polling"
    /\ reg \in last.intervals
    /\ Len(last.checks) < MaxChecks
    /\ Cardinality(Unresolved(last)) < MaxInFlight
    /\ last' = [startCheck(last, reg) EXCEPT !.event = Event("poll", reg, "none")]
    /\ UNCHANGED <<impl, fs, now>>

\* the system answers a check: what the permission is now, or an error
Answer(c, answer) ==
    /\ c \in Unresolved(last)
    /\ last.checks[c].answer = "pending"
    /\ answer \in {IF last.granted THEN "granted" ELSE "denied", "error"}
    /\ last' = [last EXCEPT !.checks[c].answer = answer,
                            !.event = Event("answer", last.checks[c].reg, answer)]
    /\ UNCHANGED <<impl, fs, now>>

\* the rest of the callback after the await, polling version
resolvePolling(w, reg, answer) ==
    IF answer = "error" THEN w
    ELSE IF answer = "denied"
    THEN IF w.toastId = {} THEN [w EXCEPT !.toastId = {w.nextToast}, !.open = @ \cup {w.nextToast},
                                          !.nextToast = @ + 1]
         ELSE w
    ELSE [w EXCEPT !.open = dismiss(@, w.toastId), !.intervals = @ \ {reg},
                   !.observed = @ \cup {reg}]

\* the rest of the async function after the await, check-once version:
\* toast.info with the id of the registration
resolveOnce(w, reg, answer) ==
    IF answer = "denied" THEN [w EXCEPT !.open = @ \cup {reg}]
    ELSE IF answer = "granted" THEN [w EXCEPT !.observed = @ \cup {reg}]
    ELSE w

\* the awaited check resolves and the callback goes on
Resolve(c) ==
    LET check == last.checks[c]
        w == [last EXCEPT !.checks[c].done = TRUE,
                          !.event = Event("resolve", check.reg, check.answer)]
    IN  /\ c \in Unresolved(last)
        /\ check.answer # "pending"
        /\ last' = IF impl = "polling" THEN resolvePolling(w, check.reg, check.answer)
                   ELSE resolveOnce(w, check.reg, check.answer)
        /\ UNCHANGED <<impl, fs, now>>

\* the function the registration returned
cleanup(w, reg) ==
    IF impl = "polling"
    THEN [w EXCEPT !.intervals = @ \ {reg}, !.open = @ \ w.toastId,
                   !.cleaned = @ \cup {reg}]
    ELSE [w EXCEPT !.open = @ \ {reg}, !.cleaned = @ \cup {reg}]

Cleanup(reg) ==
    /\ reg \in 1..last.registered
    /\ reg \notin last.cleaned
    /\ last' = cleanup([last EXCEPT !.event = Event("cleanup", reg, "none")], reg)
    /\ UNCHANGED <<impl, fs, now>>

\* the user grants the permission in the system settings
Grant ==
    /\ ~last.granted
    /\ last' = [last EXCEPT !.granted = TRUE, !.event = Event("grant", 0, "none")]
    /\ UNCHANGED <<impl, fs, now>>

InitWatch ==
    /\ impl \in Watchers
    /\ fs = EmptyObj
    /\ now = 1
    /\ \E granted \in BOOLEAN :
          last = [op |-> "watch", event |-> Event("load", 0, "none"), granted |-> granted,
                  toastId |-> {}, nextToast |-> 1, open |-> {}, intervals |-> {},
                  checks |-> <<>>, registered |-> 0, cleaned |-> {}, observed |-> {}]

NextWatch ==
    \/ Register
    \/ \E reg \in 1..MaxRegistrations : Poll(reg)
    \/ \E c \in 1..MaxChecks : \E answer \in {"granted", "denied", "error"} : Answer(c, answer)
    \/ \E c \in 1..MaxChecks : Resolve(c)
    \/ \E reg \in 1..MaxRegistrations : Cleanup(reg)
    \/ Grant

SpecWatch == InitWatch /\ [][NextWatch]_vars

\* C37: in the polling permission watcher at most one permission toast is
\* open at any time; once a poll has observed the permission granted, no
\* permission toast is open, the interval of that poll is cleared and no
\* further check is started for it; a poll whose check returns an error
\* changes neither the toast nor the interval.
C37_PollingWatcherShowsOneToastUntilGranted ==
    [][impl = "polling"
        => /\ Cardinality(last'.open) <= 1
           /\ last'.observed # {} => last'.open = {}
           /\ \A reg \in last'.observed : reg \notin last'.intervals
           /\ last'.event.kind = "poll" => last'.event.reg \notin last.observed
           /\ (last'.event.kind = "resolve" /\ last'.event.answer = "error")
                 => /\ last'.open = last.open
                    /\ last'.toastId = last.toastId
                    /\ last'.intervals = last.intervals]_vars

\* C38: after the cleanup function of a registration has been called no
\* permission toast is open and none is opened later, even when a check
\* started before the cleanup resolves after it (stated when every
\* registration made has been cleaned up); and a registration that has not
\* been cleaned up shows the toast whenever its check reports the permission
\* not granted, a re-registration after a cleanup included.
C38_CleanupClosesAndReRegistrationShows ==
    [][/\ (last'.registered > 0 /\ last'.cleaned = 1..last'.registered) => last'.open = {}
       /\ (/\ last'.event.kind = "resolve" /\ last'.event.answer = "denied"
           /\ last'.event.reg \notin last'.cleaned)
             => last'.open # {}]_vars

----------------------------------------------------------------------------
(* The mirror name of a table and its parser (utils).  The names are those  *)
(* definePlugin accepts.                                                    *)

MaxNameLen == 3

\* String.prototype.split(separator): the parts between the separators, an
\* empty part where two separators meet or where the string begins or ends
\* with one
RECURSIVE split(_, _)
split(str, separator) ==
    IF \A k \in 1..Len(str) : str[k] # separator THEN <<str>>
    ELSE LET at == CHOOSE k \in 1..Len(str) :
                      str[k] = separator /\ \A j \in 1..(k - 1) : str[j] # separator
         IN  <<SubSeq(str, 1, at - 1)>> \o split(SubSeq(str, at + 1, Len(str)), separator)

\* const [pluginId, ...tableNameParts] = sqliteTableName.split('_')
parseSQLiteTableName(sqliteTableName) ==
    LET parts == split(sqliteTableName, "_")
    IN  [pluginId |-> Head(parts), tableName |-> joinWith(Tail(parts), <<"_">>)]

\* the names of at most MaxNameLen tokens that match ^[a-z][a-z0-9_]*$
NameInputs ==
    {name \in UNION {[1..n -> {"a", "b", "9", "_"}] : n \in 1..MaxNameLen} : isValidName(name)}

\* a plugin with one table goes through definePlugin; the mirror name of the
\* table is made and parsed back
ParseMirrorName(pluginId, tableName) ==
    /\ last.op = "start"
    /\ definePlugin(Plugin(pluginId, <<Table(tableName, {})>>, {})).kind = "value"
    /\ last' = Call("parseSQLiteTableName", <<>>, <<>>,
                    [pluginId |-> pluginId, tableName |-> tableName], <<>>,
                    Returned(parseSQLiteTableName(getSQLiteTableName(pluginId, tableName))))
    /\ UNCHANGED <<impl, fs, now>>

InitParse ==
    /\ impl = "vault"
    /\ fs = EmptyObj
    /\ now = 1
    /\ last = Call("start", <<>>, <<>>, EmptyObj, <<>>, Returned(EmptyObj))

NextParse == \E pluginId \in NameInputs : \E tableName \in NameInputs :
                 ParseMirrorName(pluginId, tableName)

SpecParse == InitParse /\ [][NextParse]_vars

\* C39: parseSQLiteTableName inverts getSQLiteTableName: for every plugin id
\* p and table name t that match ^[a-z][a-z0-9_]*$, underscores included,
\* parseSQLiteTableName(getSQLiteTableName(p, t)) is { pluginId: p,
\* tableName: t }.
C39_ParseInvertsMirrorName ==
    last.op = "parseSQLiteTableName"
        => last.result.value = [pluginId |-> last.input.pluginId,
                                tableName |-> last.input.tableName]

====
